---- MODULE Spec2Model ----
(***************************************************************************)
(* fnerd-falconpy: remote forensic collection over CrowdStrike RTR.        *)
(*                                                                         *)
(* The module holds several state machines over disjoint variable groups:  *)
(*   Spec       upload of a collection archive (upload_kape_results and    *)
(*              upload_uac_results): session selection, the monitoring     *)
(*              loop, the final HEAD verification, workspace cleanup and   *)
(*              the finally block.                                         *)
(* Each specification keeps the variables of the other groups fixed.       *)
(***************************************************************************)
EXTENDS Integers, Sequences, FiniteSets, TLC

(***************************************************************************)
(* Bounds and constants of the upload model                                *)
(***************************************************************************)
\* Largest archive size (in abstract size units) the model enumerates.
MaxSize == 2
\* Monitoring budget, counted in sleeps of check_interval: the loop has
\* timed out once more than MaxChecks sleeps have elapsed.
MaxChecks == 2
\* uac_collector.py:960
max_session_recreations == 3
\* collectors.py:1975, the size assumed when the stat command gives none;
\* it is larger than every real size of the model.
FallbackSize == 9

VARIABLES
    collector,                   \* "kape" (upload_kape_results) or "uac" (upload_uac_results)
    pc,                          \* position of the upload function
    session,                     \* local `session`, 0 is None
    session_created,             \* local `session_created` (UAC)
    existing_session,            \* parameter `existing_session`, 0 is None
    open_sessions,               \* sessions open on the control plane
    started_sessions,            \* sessions start_session returned during this upload
    end_calls,                   \* session id -> number of end_session calls on it
    session_recreation_attempts, \* local of the UAC monitoring loop
    elapsed,                     \* sleeps of check_interval taken by the monitoring loop
    upload_proc,                 \* upload subprocess on the endpoint
    exit_observed,               \* the loop saw the subprocess gone, its exit code or 100 %
    loop_exit,                   \* why the monitoring loop ended
    s3_size,                     \* size of the destination object, 0 when absent
    archive_size,                \* size of the archive on the endpoint
    file_size,                   \* local `file_size`
    head_code,                   \* status of the deciding HEAD, 0 before it
    head_size,                   \* ContentLength of the deciding HEAD
    upload_success,              \* value returned by the upload function
    workspace_exists             \* the deploy workspace exists on the endpoint

varsU == <<collector, pc, session, session_created, existing_session,
           open_sessions, started_sessions, end_calls,
           session_recreation_attempts, elapsed, upload_proc, exit_observed,
           loop_exit, s3_size, archive_size, file_size, head_code, head_size,
           upload_success, workspace_exists>>

VARIABLES
    phase,            \* long-wait phase the engine is in
    now,              \* time.time(), in seconds since the phase began
    phase_start,      \* the start time the running loop measures its timeout from
    last_pulse_time,  \* the loop's local last_pulse_time / last_sha_pulse_time
    last_pulse_sent,  \* when pulse_session was last called, whatever it returned
    pulse_failed,     \* pulse_session returned False in this run
    phase_result      \* "running", "success" or "failed"

varsP == <<phase, now, phase_start, last_pulse_time, last_pulse_sent,
           pulse_failed, phase_result>>

VARIABLES
    cpc,               \* position in ensure_clean_environment and the deploy after it
    platform,          \* "windows" (KAPE run) or "unix" (UAC run)
    leftover,          \* collector processes of an earlier run alive on the endpoint
    ws,                \* the deploy workspace: "absent", "empty" or "dirty"
    clean_result,      \* what ensure_clean_environment returned, "pending" before
    ws_before_deploy,  \* the workspace as it was when the deploy began
    wait_elapsed,      \* seconds _wait_for_process_termination has slept
    failed_step,       \* the first cleanup step that failed, "none" if none did
    verify_sweep       \* the sweep of _verify_clean_environment: "none", "ran", "no_result"

varsC == <<cpc, platform, leftover, ws, clean_result, ws_before_deploy,
           wait_elapsed, failed_step, verify_sweep>>

VARIABLES
    mode,                   \* "kape" (run_kape_batch) or "uac" (run_uac_batch)
    targets,                \* worker -> the agent its host resolves to
    cid_pc,                 \* customer-id -> position of _process_kape_batch_for_cid
    _cloud_upload_lock,     \* customer-id whose thread holds the lock, 0 when free
    _cloud_files_uploaded,  \* customer-id -> put-file names marked as uploaded
    put_uploads,            \* customer-id -> put-file name -> uploads made in this run
    wpc,                    \* worker -> position of _process_single_kape / _process_single_uac
    wsession,               \* worker -> its local `session`, 0 is None
    cp_open,                \* sessions open on the control plane
    sess_agent,             \* session id -> agent it was opened against, 0 if unused
    sess_owner,             \* session id -> worker that opened it, 0 for a batch session
    wrecreations            \* worker -> session_recreation_attempts of its upload

varsB == <<mode, targets, cid_pc, _cloud_upload_lock, _cloud_files_uploaded,
           put_uploads, wpc, wsession, cp_open, sess_agent, sess_owner,
           wrecreations>>

VARIABLES
    rmode,                  \* "kape" (run_kape_batch) or "uac" (run_uac_batch)
    max_concurrent_hosts,   \* the orchestrator's max_concurrent_hosts
    hosts,                  \* hostname -> how resolution and the endpoint answer
    hstate,                 \* hostname -> "given", "unresolved", "pending", "running", "finished", "skipped"
    results,                \* hostname -> its entry of the result map, "absent" if none
    rpc,                    \* position of the batch call
    group_start             \* run_kape_batch: index i of the group being run

varsR == <<rmode, max_concurrent_hosts, hosts, hstate, results, rpc,
           group_start>>

VARIABLES
    kcollector,     \* "kape" (run_kape_sequential) or "uac" (run_uac_sequential)
    kmain,          \* main thread: "waiting" in future.result(), "shutdown_wait", "exit_join", "exited"
    kworker,        \* the executor's worker: "idle", "collect", "upload", "returned"
    ksession,       \* the worker's collector holds an open session
    kqueued,        \* futures submitted and not yet started
    kinterrupts,    \* interrupts the operator has sent
    kint_was_open,  \* a session was open at the first interrupt
    kint_open,      \* the session that was open at the first interrupt is still open
    kint_host,      \* the worker is still on the host it had at the first interrupt
    kcleanup        \* a workspace cleanup was attempted on that host since the interrupt

varsK == <<kcollector, kmain, kworker, ksession, kqueued, kinterrupts,
           kint_was_open, kint_open, kint_host, kcleanup>>

VARIABLES
    dpc,                  \* position in download_file: "start", "get_wait", "sha", "content", "done"
    local_path,           \* the local_path argument, as its components
    get_issued,           \* `get` commands issued by this download
    elapsed_time,         \* seconds since sha_wait_start
    last_sha_pulse_time,  \* last_sha_pulse_time, relative to sha_wait_start
    retry_count,          \* retry_count of the content loop
    other_error_seen,     \* a structured error other than "Unknown file" was received
    received_len,         \* len(file_contents) of the bytes received, -1 before
    saved_size,           \* size of the written file on disk
    written_path,         \* path the bytes were written to, <<>> if none
    download_result,      \* "running", "success", "failed"
    download_exit         \* which return statement the download took

varsD == <<dpc, local_path, get_issued, elapsed_time, last_sha_pulse_time,
           retry_count, other_error_seen, received_len, saved_size,
           written_path, download_result, download_exit>>

VARIABLES
    xpc,              \* position: "submit", "poll", "cmd_returned", "returned"
    x_max_retries,    \* the max_retries argument of _execute_with_retry
    attempt,          \* attempt of the loop in _execute_with_retry
    tries,            \* calls of execute_command made by _execute_with_retry
    waits,            \* the wait_time of every sleep between tries, in order
    retried_after,    \* kinds of failure that were followed by another try
    xresult,          \* what _execute_with_retry returned: "pending", "CommandResult", "None"
    cmd_result,       \* what execute_command returned: "pending", "CommandResult", "None"
    cmd_exit,         \* which return statement execute_command took
    cmd_submitted,    \* the command was accepted and has a cloud_request_id
    cmd_waited,       \* seconds execute_command has slept since submitting
    cmd_retry_count,  \* retry_count of the status loop
    failure_kind      \* kind of the error behind a None: "none", "network", "timeout", "other"

varsX == <<xpc, x_max_retries, attempt, tries, waits, retried_after, xresult,
           cmd_result, cmd_exit, cmd_submitted, cmd_waited, cmd_retry_count,
           failure_kind>>

VARIABLES
    wk_caller,          \* the function whose post-operation cleanup runs
    wk_pc,              \* position: "normal", "emergency", "done"
    normal_failed,      \* the normal cleanup did not succeed
    emergency_invoked,  \* emergency_cleanup was called
    emergency_results,  \* whether each emergency command issued so far gave a result
    emergency_success,  \* what emergency_cleanup returned: "none", "True", "False"
    cleanup_returned,   \* what cleanup_workspace returned: "none", "True", "False"
    confirmed_absent    \* a verifying command of cleanup_workspace answered that the workspace is gone

varsW == <<wk_caller, wk_pc, normal_failed, emergency_invoked,
           emergency_results, emergency_success, cleanup_returned,
           confirmed_absent>>

VARIABLES
    mon,                   \* "kape" (monitor_kape_execution) or "uac" (monitor_uac_execution)
    mpc,                   \* position: "loop", "stability", "archive_wait", "returned"
    m_elapsed,             \* elapsed_seconds of the monitoring loop
    m_timeout,             \* local `timeout`, the deadline of the loop
    profile_timeout,       \* `timeout` as the loop started with it
    m_last_pulse,          \* last_pulse_time, relative to start_time
    m_result,              \* "running", or what the function returned
    m_exit,                \* which return statement the function took
    last_listing,          \* what the last `ps` listing held: "none", "has_kape", "no_kape"
    extensions,            \* times `timeout` was extended
    last_recheck,          \* what the last PID re-check showed: "none", "live", "not_live"
    stable_count,          \* stable_count of the stability loop
    last_size,             \* last_size of the stability loop, -1 is None
    stability_elapsed,     \* seconds the stability loop has slept
    archive_wait_elapsed,  \* seconds the archive wait has slept
    exit_code_seen         \* the exit-code file as the loop read it: "none", "zero", "nonzero"

varsM == <<mon, mpc, m_elapsed, m_timeout, profile_timeout, m_last_pulse,
           m_result, m_exit, last_listing, extensions, last_recheck,
           stable_count, last_size, stability_elapsed, archive_wait_elapsed,
           exit_code_seen>>

VARIABLES
    vpc,            \* position in _verify_s3_upload_success: "verify", "returned"
    v_expected_size,  \* the expected_size argument, 0 is None
    object_size,    \* ContentLength of the destination object, -1 when there is none
    v_head_code,    \* status of the HEAD, 0 before it
    verification    \* what the verification returned: "pending", "True", "False"

varsV == <<vpc, v_expected_size, object_size, v_head_code, verification>>

VARIABLES
    lpc,        \* position in monitor_uac_execution: "loop", "returned"
    time_left   \* timeout - elapsed_seconds, negative once the deadline has passed

varsL == <<lpc, time_left>>

VARIABLES
    tpc,             \* position of _process_kape_batch_for_cid: "start", "workers", "returned"
    kape_targets,    \* host -> the KAPE target given for it in this batch
    zip_target,      \* the target in the _kape.cli of the customer-id's cloud kape.zip, "none" without one
    files_uploaded,  \* 'kape.zip' in _cloud_files_uploaded[cid]
    collected_with,  \* host -> the target its collection ran with, "none" before, "failed" without one
    batches_run      \* batches of this customer-id finished in this process

varsT == <<tpc, kape_targets, zip_target, files_uploaded, collected_with,
           batches_run>>

VARIABLES
    rtr_client,         \* customer-id of self.rtr_client, 0 is None
    session_manager,    \* customer-id of the RTR client the managers and collectors hold, 0 is None
    _initialized_cids,  \* self._initialized_cids
    host_cid,           \* host_info.cid of the last initialize_for_host call, 0 before any
    init_outcome,       \* how the last call ended: "none", "host_info", "ValueError", "RuntimeError"
    init_calls          \* calls of initialize_for_host so far

varsO == <<rtr_client, session_manager, _initialized_cids, host_cid,
           init_outcome, init_calls>>

VARIABLES
    _active_sessions,  \* SessionManager._active_sessions, the session ids it holds
    apc,               \* thread -> position: "idle", "store", "check", "del"
    a_session,         \* thread -> the session id its call works on, 0 when idle
    a_result,          \* thread -> what its last call returned
    sessions_started,  \* session ids start_session has returned
    sessions_ended     \* session ids for which end_session has returned True

varsA == <<_active_sessions, apc, a_session, a_result, sessions_started,
           sessions_ended>>

VARIABLES
    gpc,               \* position of the budget computation: "size", "budget"
    budget_platform,   \* "windows" (upload_kape_results) or "unix" (upload_uac_results)
    budget_file_size,  \* file_size, in blocks of 64 bytes
    upload_budget      \* actual_wait_time / estimated_upload_time in seconds, 0 before

varsG == <<gpc, budget_platform, budget_file_size, upload_budget>>

vars == <<varsU, varsP, varsC, varsB, varsR, varsK, varsD, varsX, varsW, varsM, varsV, varsL, varsT, varsO, varsA, varsG>>

\* The variables the upload model leaves alone.
othersU == <<varsP, varsC, varsB, varsR, varsK, varsD, varsX, varsW, varsM, varsV, varsL, varsT, varsO, varsA, varsG>>
\* The variables the long-wait model leaves alone.
othersP == <<varsU, varsC, varsB, varsR, varsK, varsD, varsX, varsW, varsM, varsV, varsL, varsT, varsO, varsA, varsG>>
\* The variables the pre-execution cleanup model leaves alone.
othersC == <<varsU, varsP, varsB, varsR, varsK, varsD, varsX, varsW, varsM, varsV, varsL, varsT, varsO, varsA, varsG>>
\* The variables the batch model leaves alone.
othersB == <<varsU, varsP, varsC, varsR, varsK, varsD, varsX, varsW, varsM, varsV, varsL, varsT, varsO, varsA, varsG>>
\* The variables the batch scheduling model leaves alone.
othersR == <<varsU, varsP, varsC, varsB, varsK, varsD, varsX, varsW, varsM, varsV, varsL, varsT, varsO, varsA, varsG>>
\* The variables the cancellation model leaves alone.
othersK == <<varsU, varsP, varsC, varsB, varsR, varsD, varsX, varsW, varsM, varsV, varsL, varsT, varsO, varsA, varsG>>
\* The variables the download model leaves alone.
othersD == <<varsU, varsP, varsC, varsB, varsR, varsK, varsX, varsW, varsM, varsV, varsL, varsT, varsO, varsA, varsG>>
\* The variables the command model leaves alone.
othersX == <<varsU, varsP, varsC, varsB, varsR, varsK, varsD, varsW, varsM, varsV, varsL, varsT, varsO, varsA, varsG>>
\* The variables the post-operation cleanup model leaves alone.
othersW == <<varsU, varsP, varsC, varsB, varsR, varsK, varsD, varsX, varsM, varsV, varsL, varsT, varsO, varsA, varsG>>
\* The variables the monitoring model leaves alone.
othersM == <<varsU, varsP, varsC, varsB, varsR, varsK, varsD, varsX, varsW, varsV, varsL, varsT, varsO, varsA, varsG>>
\* The variables the verification model leaves alone.
othersV == <<varsU, varsP, varsC, varsB, varsR, varsK, varsD, varsX, varsW, varsM, varsL, varsT, varsO, varsA, varsG>>
\* The variables the deadline model leaves alone.
othersL == <<varsU, varsP, varsC, varsB, varsR, varsK, varsD, varsX, varsW, varsM, varsV, varsT, varsO, varsA, varsG>>
\* The variables the target model leaves alone.
othersT == <<varsU, varsP, varsC, varsB, varsR, varsK, varsD, varsX, varsW, varsM, varsV, varsL, varsO, varsA, varsG>>
\* The variables the orchestrator model leaves alone.
othersO == <<varsU, varsP, varsC, varsB, varsR, varsK, varsD, varsX, varsW, varsM, varsV, varsL, varsT, varsA, varsG>>
\* The variables the session-table model leaves alone.
othersA == <<varsU, varsP, varsC, varsB, varsR, varsK, varsD, varsX, varsW, varsM, varsV, varsL, varsT, varsO, varsG>>
\* The variables the budget model leaves alone.
othersG == <<varsU, varsP, varsC, varsB, varsR, varsK, varsD, varsX, varsW, varsM, varsV, varsL, varsT, varsO, varsA>>

\* The budget model at rest.
IdleG ==
    /\ gpc = "idle"
    /\ budget_platform = "none"
    /\ budget_file_size = 0
    /\ upload_budget = 0

\* The session-table model at rest.
IdleA ==
    /\ _active_sessions = {}
    /\ apc = <<>>
    /\ a_session = <<>>
    /\ a_result = <<>>
    /\ sessions_started = {}
    /\ sessions_ended = {}

\* The orchestrator model at rest.
IdleO ==
    /\ rtr_client = 0
    /\ session_manager = 0
    /\ _initialized_cids = {}
    /\ host_cid = 0
    /\ init_outcome = "idle"
    /\ init_calls = 0

\* The target model at rest.
IdleT ==
    /\ tpc = "idle"
    /\ kape_targets = <<>>
    /\ zip_target = "none"
    /\ files_uploaded = FALSE
    /\ collected_with = <<>>
    /\ batches_run = 0

\* The deadline model at rest.
IdleL ==
    /\ lpc = "idle"
    /\ time_left = 0

\* The verification model at rest.
IdleV ==
    /\ vpc = "idle"
    /\ v_expected_size = 0
    /\ object_size = -1
    /\ v_head_code = 0
    /\ verification = "idle"

\* The monitoring model at rest.
IdleM ==
    /\ mon = "none"
    /\ mpc = "idle"
    /\ m_elapsed = 0
    /\ m_timeout = 0
    /\ profile_timeout = 0
    /\ m_last_pulse = 0
    /\ m_result = "idle"
    /\ m_exit = "none"
    /\ last_listing = "none"
    /\ extensions = 0
    /\ last_recheck = "none"
    /\ stable_count = 0
    /\ last_size = -1
    /\ stability_elapsed = 0
    /\ archive_wait_elapsed = 0
    /\ exit_code_seen = "none"

\* The post-operation cleanup model at rest.
IdleW ==
    /\ wk_caller = "none"
    /\ wk_pc = "idle"
    /\ normal_failed = FALSE
    /\ emergency_invoked = FALSE
    /\ emergency_results = <<>>
    /\ emergency_success = "none"
    /\ cleanup_returned = "none"
    /\ confirmed_absent = FALSE

\* The command model at rest.
IdleX ==
    /\ xpc = "idle"
    /\ x_max_retries = 0
    /\ attempt = 0
    /\ tries = 0
    /\ waits = <<>>
    /\ retried_after = {}
    /\ xresult = "idle"
    /\ cmd_result = "idle"
    /\ cmd_exit = "none"
    /\ cmd_submitted = FALSE
    /\ cmd_waited = 0
    /\ cmd_retry_count = 0
    /\ failure_kind = "none"

\* The download model at rest.
IdleD ==
    /\ dpc = "idle"
    /\ local_path = <<>>
    /\ get_issued = 0
    /\ elapsed_time = 0
    /\ last_sha_pulse_time = 0
    /\ retry_count = 0
    /\ other_error_seen = FALSE
    /\ received_len = -1
    /\ saved_size = 0
    /\ written_path = <<>>
    /\ download_result = "idle"
    /\ download_exit = "none"

\* The cancellation model at rest.
IdleK ==
    /\ kcollector = "none"
    /\ kmain = "idle"
    /\ kworker = "idle"
    /\ ksession = FALSE
    /\ kqueued = 0
    /\ kinterrupts = 0
    /\ kint_was_open = FALSE
    /\ kint_open = FALSE
    /\ kint_host = FALSE
    /\ kcleanup = FALSE

\* The batch scheduling model at rest.
IdleR ==
    /\ rmode = "none"
    /\ max_concurrent_hosts = 0
    /\ hosts = <<>>
    /\ hstate = <<>>
    /\ results = <<>>
    /\ rpc = "idle"
    /\ group_start = 0

\* The batch model at rest.
IdleB ==
    /\ mode = "none"
    /\ targets = <<>>
    /\ cid_pc = <<>>
    /\ _cloud_upload_lock = 0
    /\ _cloud_files_uploaded = <<>>
    /\ put_uploads = <<>>
    /\ wpc = <<>>
    /\ wsession = <<>>
    /\ cp_open = {}
    /\ sess_agent = <<>>
    /\ sess_owner = <<>>
    /\ wrecreations = <<>>

\* The pre-execution cleanup model at rest.
IdleC ==
    /\ cpc = "idle"
    /\ platform = "none"
    /\ leftover = 0
    /\ ws = "absent"
    /\ clean_result = "pending"
    /\ ws_before_deploy = "unknown"
    /\ wait_elapsed = 0
    /\ failed_step = "none"
    /\ verify_sweep = "none"

\* The long-wait model at rest.
IdleP ==
    /\ phase = "idle"
    /\ now = 0
    /\ phase_start = 0
    /\ last_pulse_time = 0
    /\ last_pulse_sent = 0
    /\ pulse_failed = FALSE
    /\ phase_result = "running"

SessionIds == 1..(max_session_recreations + 2)

\* The session id the control plane hands out next.
NewSessionId ==
    CHOOSE i \in SessionIds :
        /\ i \notin started_sessions \cup {existing_session}
        /\ \A j \in SessionIds :
              j \notin started_sessions \cup {existing_session} => i <= j

\* Status codes a HEAD on the destination object can produce.
HeadResponses == IF s3_size > 0 THEN {200, 500} ELSE {404, 500}

\* A verification that accepts any object under the key, whatever its size.
verify_existence_only(code, actual_size, expected_size) == code = 200

\* A verification that accepts an object whose size is within
\* max(1 KiB, 1 %) of the expected size.
verify_within_tolerance(code, actual_size, expected_size) ==
    LET d == IF actual_size >= expected_size THEN actual_size - expected_size
             ELSE expected_size - actual_size
    IN  IF code = 200
        THEN IF expected_size # 0
             THEN d <= 1024 \/ 100 * d <= expected_size
             ELSE TRUE
        ELSE FALSE

\* CloudStorageManager.verify_s3_upload; expected 0 is expected_size None.
verify_s3_upload(code, actual_size, expected_size) ==
    IF code = 200
    THEN IF expected_size # 0 THEN actual_size = expected_size ELSE TRUE
    ELSE FALSE

\* A recreation test that lets one more attempt through.
RecreatesOnceMore(n) == n <= max_session_recreations

\* upload_uac_results: session_recreation_attempts < max_session_recreations.
MayRecreate(n) == n < max_session_recreations

\* A monitoring loop that gives up waiting at its first check.
GivesUpAtOnce(e) == TRUE

\* The timeout test of both monitoring loops.
MonitoringTimedOut(e) == e > MaxChecks

InitU ==
    /\ collector \in {"kape", "uac"}
    /\ pc = "begin"
    /\ session = 0
    /\ session_created = FALSE
    /\ existing_session \in {0, 1}
    /\ (collector = "kape" => existing_session = 0)
    /\ open_sessions = IF existing_session = 0 THEN {} ELSE {existing_session}
    /\ started_sessions = {}
    /\ end_calls = [i \in SessionIds |-> 0]
    /\ session_recreation_attempts = 0
    /\ elapsed = 0
    /\ upload_proc = "none"
    /\ exit_observed = FALSE
    /\ loop_exit = "none"
    /\ s3_size = 0
    /\ archive_size \in 1..MaxSize
    /\ file_size = 0
    /\ head_code = 0
    /\ head_size = 0
    /\ upload_success = FALSE
    /\ workspace_exists = TRUE

\* The upload model at rest.
IdleU ==
    /\ collector = "none"
    /\ pc = "idle"
    /\ session = 0
    /\ session_created = FALSE
    /\ existing_session = 0
    /\ open_sessions = {}
    /\ started_sessions = {}
    /\ end_calls = [i \in SessionIds |-> 0]
    /\ session_recreation_attempts = 0
    /\ elapsed = 0
    /\ upload_proc = "none"
    /\ exit_observed = FALSE
    /\ loop_exit = "none"
    /\ s3_size = 0
    /\ archive_size = 0
    /\ file_size = 0
    /\ head_code = 0
    /\ head_size = 0
    /\ upload_success = FALSE
    /\ workspace_exists = FALSE

\* The function returns False before the monitoring loop.
ReturnFalseEarly ==
    /\ pc' = "finally"
    /\ upload_success' = FALSE
    /\ UNCHANGED <<upload_proc, file_size>>

(***************************************************************************)
(* upload_uac_results, session selection to the start of the background    *)
(* curl.                                                                   *)
(***************************************************************************)
upload_uac_results_begin ==
    /\ collector = "uac" /\ pc = "begin"
    /\ \E valid, started, launched \in BOOLEAN :
         LET reuse == existing_session # 0 /\ valid
             sid == NewSessionId
         IN
         /\ valid => existing_session \in open_sessions
         /\ IF reuse
            THEN /\ session' = existing_session
                 /\ UNCHANGED <<session_created, open_sessions, started_sessions>>
            ELSE IF started
            THEN /\ session' = sid
                 /\ session_created' = TRUE
                 /\ open_sessions' = open_sessions \cup {sid}
                 /\ started_sessions' = started_sessions \cup {sid}
            ELSE /\ session' = 0
                 /\ UNCHANGED <<session_created, open_sessions, started_sessions>>
         /\ IF (reuse \/ started) /\ launched
            THEN /\ pc' = "monitor"
                 /\ upload_proc' = "running"
                 /\ file_size' = archive_size
                 /\ UNCHANGED upload_success
            ELSE ReturnFalseEarly
    /\ UNCHANGED othersU
    /\ UNCHANGED <<collector, existing_session, end_calls,
                   session_recreation_attempts, elapsed, exit_observed,
                   loop_exit, s3_size, archive_size, head_code, head_size,
                   workspace_exists>>

(***************************************************************************)
(* One iteration of the monitoring loop of upload_uac_results.  `ok` is    *)
(* whether the progress command returned a result.  The HEAD requests the  *)
(* loop issues after 100 % or exit code 0 only log; they decide nothing.   *)
(***************************************************************************)
upload_uac_results_monitor ==
    /\ collector = "uac" /\ pc = "monitor"
    /\ \E ok, started, deleted \in BOOLEAN :
         LET sid == NewSessionId IN
         /\ ok => session \in open_sessions
         /\ IF ~ok
            THEN IF MayRecreate(session_recreation_attempts)
                 THEN /\ session_recreation_attempts' = session_recreation_attempts + 1
                      /\ end_calls' = [end_calls EXCEPT ![session] = @ + 1]
                      /\ IF started
                         THEN /\ session' = sid
                              /\ session_created' = TRUE
                              /\ open_sessions' =
                                   (IF deleted THEN open_sessions \ {session}
                                               ELSE open_sessions) \cup {sid}
                              /\ started_sessions' = started_sessions \cup {sid}
                              /\ UNCHANGED <<pc, loop_exit>>
                         ELSE /\ open_sessions' =
                                   IF deleted THEN open_sessions \ {session}
                                              ELSE open_sessions
                              /\ pc' = "verify"
                              /\ loop_exit' = "session_lost"
                              /\ UNCHANGED <<session, session_created, started_sessions>>
                      /\ UNCHANGED <<elapsed, exit_observed>>
                 ELSE /\ pc' = "verify"
                      /\ loop_exit' = "session_lost"
                      /\ UNCHANGED <<session, session_created, open_sessions,
                                     started_sessions, end_calls,
                                     session_recreation_attempts, elapsed,
                                     exit_observed>>
            ELSE /\ IF upload_proc \in {"sent100", "exited"}
                    THEN /\ exit_observed' = TRUE
                         /\ loop_exit' = "completed"
                         /\ pc' = "verify"
                         /\ UNCHANGED elapsed
                    ELSE IF MonitoringTimedOut(elapsed)
                    THEN /\ loop_exit' = "timeout"
                         /\ pc' = "verify"
                         /\ UNCHANGED <<elapsed, exit_observed>>
                    ELSE /\ elapsed' = elapsed + 1
                         /\ UNCHANGED <<pc, loop_exit, exit_observed>>
                 /\ UNCHANGED <<session, session_created, open_sessions,
                                started_sessions, end_calls,
                                session_recreation_attempts>>
    /\ UNCHANGED othersU
    /\ UNCHANGED <<collector, existing_session, upload_proc, s3_size,
                   archive_size, file_size, head_code, head_size,
                   upload_success, workspace_exists>>

(***************************************************************************)
(* The final verification of upload_uac_results, the cleanup that follows  *)
(* a success, and the return.  _verify_s3_upload_success (UAC) passes no   *)
(* expected size and, when verify_s3_upload fails, asks once more through  *)
(* get_s3_object_info.                                                     *)
(***************************************************************************)
upload_uac_results_verify ==
    /\ collector = "uac" /\ pc = "verify"
    /\ \E code \in HeadResponses, info_code \in HeadResponses :
         LET verdict == \/ verify_s3_upload(code, s3_size, 0)
                        \/ verify_s3_upload(info_code, s3_size, 0)
         IN
         /\ head_code' = IF code # 200 /\ info_code = 200 THEN 200 ELSE code
         /\ head_size' = s3_size
         /\ upload_success' = verdict
         /\ workspace_exists' =
              IF verdict /\ session \in open_sessions THEN FALSE
              ELSE workspace_exists
    /\ pc' = "finally"
    /\ UNCHANGED othersU
    /\ UNCHANGED <<collector, session, session_created, existing_session,
                   open_sessions, started_sessions, end_calls,
                   session_recreation_attempts, elapsed, upload_proc,
                   exit_observed, loop_exit, s3_size, archive_size, file_size>>

\* The finally block of upload_uac_results.
upload_uac_results_finally ==
    /\ collector = "uac" /\ pc = "finally"
    /\ IF session_created /\ session # 0
       THEN /\ end_calls' = [end_calls EXCEPT ![session] = @ + 1]
            /\ \E deleted \in BOOLEAN :
                 open_sessions' = IF deleted THEN open_sessions \ {session}
                                             ELSE open_sessions
       ELSE UNCHANGED <<end_calls, open_sessions>>
    /\ pc' = "done"
    /\ UNCHANGED othersU
    /\ UNCHANGED <<collector, session, session_created, existing_session,
                   started_sessions, session_recreation_attempts, elapsed,
                   upload_proc, exit_observed, loop_exit, s3_size,
                   archive_size, file_size, head_code, head_size,
                   upload_success, workspace_exists>>

(***************************************************************************)
(* upload_kape_results, start_session to the start of the hidden           *)
(* Invoke-WebRequest.  `found` stands for the listing, the archive match   *)
(* and the stability wait all succeeding; `sized` for the stat command     *)
(* giving a size.                                                          *)
(***************************************************************************)
upload_kape_results_begin ==
    /\ collector = "kape" /\ pc = "begin"
    /\ \E started, found, sized \in BOOLEAN :
         LET sid == NewSessionId IN
         /\ IF started
            THEN /\ session' = sid
                 /\ open_sessions' = open_sessions \cup {sid}
                 /\ started_sessions' = started_sessions \cup {sid}
            ELSE /\ session' = 0
                 /\ UNCHANGED <<open_sessions, started_sessions>>
         /\ IF started /\ found
            THEN /\ pc' = "monitor"
                 /\ upload_proc' = "running"
                 /\ file_size' = IF sized THEN archive_size ELSE FallbackSize
                 /\ UNCHANGED upload_success
            ELSE ReturnFalseEarly
    /\ UNCHANGED othersU
    /\ UNCHANGED <<collector, session_created, existing_session, end_calls,
                   session_recreation_attempts, elapsed, exit_observed,
                   loop_exit, s3_size, archive_size, head_code, head_size,
                   workspace_exists>>

(***************************************************************************)
(* One iteration of the monitoring loop of upload_kape_results.  `ok` is   *)
(* whether the process query returned a count.                             *)
(***************************************************************************)
upload_kape_results_monitor ==
    /\ collector = "kape" /\ pc = "monitor"
    /\ \E ok \in BOOLEAN :
         /\ ok => session \in open_sessions
         /\ IF ok /\ upload_proc = "exited"
            THEN /\ exit_observed' = TRUE
                 /\ loop_exit' = "completed"
                 /\ pc' = "verify"
                 /\ UNCHANGED elapsed
            ELSE IF MonitoringTimedOut(elapsed)
            THEN /\ loop_exit' = "timeout"
                 /\ pc' = "verify"
                 /\ UNCHANGED <<elapsed, exit_observed>>
            ELSE /\ elapsed' = elapsed + 1
                 /\ UNCHANGED <<pc, loop_exit, exit_observed>>
    /\ UNCHANGED othersU
    /\ UNCHANGED <<collector, session, session_created, existing_session,
                   open_sessions, started_sessions, end_calls,
                   session_recreation_attempts, upload_proc, s3_size,
                   archive_size, file_size, head_code, head_size,
                   upload_success, workspace_exists>>

(***************************************************************************)
(* The final verification of upload_kape_results and the return.           *)
(* _verify_s3_upload_success (KAPE) passes file_size as the expected size. *)
(***************************************************************************)
upload_kape_results_verify ==
    /\ collector = "kape" /\ pc = "verify"
    /\ \E code \in HeadResponses :
         /\ head_code' = code
         /\ head_size' = s3_size
         /\ upload_success' = verify_s3_upload(code, s3_size, file_size)
    /\ pc' = "finally"
    /\ UNCHANGED othersU
    /\ UNCHANGED <<collector, session, session_created, existing_session,
                   open_sessions, started_sessions, end_calls,
                   session_recreation_attempts, elapsed, upload_proc,
                   exit_observed, loop_exit, s3_size, archive_size, file_size,
                   workspace_exists>>

(***************************************************************************)
(* The finally block of upload_kape_results: cleanup_workspace, then       *)
(* emergency_cleanup on the same session, then end_session.  The removal   *)
(* commands take effect only on a live session.                            *)
(***************************************************************************)
upload_kape_results_finally ==
    /\ collector = "kape" /\ pc = "finally"
    /\ IF session # 0
       THEN /\ workspace_exists' =
                 IF session \in open_sessions THEN FALSE ELSE workspace_exists
            /\ end_calls' = [end_calls EXCEPT ![session] = @ + 1]
            /\ \E deleted \in BOOLEAN :
                 open_sessions' = IF deleted THEN open_sessions \ {session}
                                             ELSE open_sessions
       ELSE UNCHANGED <<workspace_exists, end_calls, open_sessions>>
    /\ pc' = "done"
    /\ UNCHANGED othersU
    /\ UNCHANGED <<collector, session, session_created, existing_session,
                   started_sessions, session_recreation_attempts, elapsed,
                   upload_proc, exit_observed, loop_exit, s3_size,
                   archive_size, file_size, head_code, head_size,
                   upload_success>>

(***************************************************************************)
(* The endpoint and the control plane, outside the engine's control.       *)
(***************************************************************************)
\* The upload subprocess has sent every byte (curl reports 100 %).
UploadReaches100 ==
    /\ upload_proc = "running"
    /\ upload_proc' = "sent100"
    /\ UNCHANGED othersU
    /\ UNCHANGED <<collector, pc, session, session_created, existing_session,
                   open_sessions, started_sessions, end_calls,
                   session_recreation_attempts, elapsed, exit_observed,
                   loop_exit, s3_size, archive_size, file_size, head_code,
                   head_size, upload_success, workspace_exists>>

\* The upload subprocess exits; whatever it stored is then in the bucket.
UploadExits ==
    /\ upload_proc \in {"running", "sent100"}
    /\ upload_proc' = "exited"
    /\ s3_size' \in 0..MaxSize
    /\ UNCHANGED othersU
    /\ UNCHANGED <<collector, pc, session, session_created, existing_session,
                   open_sessions, started_sessions, end_calls,
                   session_recreation_attempts, elapsed, exit_observed,
                   loop_exit, archive_size, file_size, head_code, head_size,
                   upload_success, workspace_exists>>

\* The control plane drops a session (server-side timeout).
SessionExpires ==
    /\ pc \in {"monitor", "verify"}
    /\ session \in open_sessions
    /\ open_sessions' = open_sessions \ {session}
    /\ UNCHANGED othersU
    /\ UNCHANGED <<collector, pc, session, session_created, existing_session,
                   started_sessions, end_calls, session_recreation_attempts,
                   elapsed, upload_proc, exit_observed, loop_exit, s3_size,
                   archive_size, file_size, head_code, head_size,
                   upload_success, workspace_exists>>

NextU ==
    \/ upload_uac_results_begin
    \/ upload_uac_results_monitor
    \/ upload_uac_results_verify
    \/ upload_uac_results_finally
    \/ upload_kape_results_begin
    \/ upload_kape_results_monitor
    \/ upload_kape_results_verify
    \/ upload_kape_results_finally
    \/ UploadReaches100
    \/ UploadExits
    \/ SessionExpires

(***************************************************************************)
(* Claims about the upload.                                                *)
(***************************************************************************)
Returned == pc \in {"finally", "done"}

\* C1: every session start_session opened during the operation has had
\* end_session called on it exactly once when the operation is over, and
\* never more than once before.
C1_EndedExactlyOnce ==
    /\ \A s \in started_sessions : end_calls[s] <= 1
    /\ pc = "done" => \A s \in started_sessions : end_calls[s] = 1

\* C4: once the upload has returned and its finally block has run, the
\* workspace does not exist on the endpoint.
C4_WorkspaceGoneAfterReturn ==
    pc = "done" => ~workspace_exists

\* C5: the upload returns success iff the deciding HEAD returned 200 and,
\* when an expected size was supplied (KAPE), the object's size equals it.
C5_SuccessIffHead ==
    Returned =>
        (upload_success <=>
            /\ head_code = 200
            /\ (collector = "kape" => head_size = file_size))

\* C5 witness: a KAPE upload returned success after a HEAD 200 with the
\* expected size.
C5_Witness ==
    /\ pc = "done" /\ collector = "kape" /\ upload_success
    /\ head_code = 200 /\ head_size = file_size

\* C6: the deciding HEAD is never performed before the subprocess was
\* observed exited or 100 % was observed.
C6_HeadOnlyAfterExitObserved ==
    head_code # 0 => exit_observed

\* C6 amended: the deciding HEAD is performed only after the monitoring loop
\* ended, and the loop ends without an observed exit or 100 % only when its
\* time budget has elapsed or the session was lost and a recreation had to
\* be tried or was no longer allowed.
C6_HeadOnlyAfterLoopEnded ==
    head_code # 0 =>
        \/ exit_observed /\ loop_exit = "completed"
        \/ loop_exit = "timeout" /\ elapsed > MaxChecks
        \/ /\ loop_exit = "session_lost" /\ collector = "uac"
           /\ session_recreation_attempts >= 1

\* C6 witness: the HEAD decided after the budget ran out with the subprocess
\* never observed to have ended.
C6_Witness ==
    /\ head_code # 0 /\ ~exit_observed /\ loop_exit = "timeout"
    /\ upload_proc = "running"

\* C15: when the session dies during upload monitoring, recreation is
\* attempted at most 3 times in that upload, and whatever the recreation
\* outcome the returned result is the outcome of the final HEAD on the
\* destination object.
C15_RecreationBoundedHeadDecides ==
    /\ session_recreation_attempts <= max_session_recreations
    /\ (Returned /\ loop_exit # "none") =>
         /\ head_code # 0
         /\ upload_success <=>
              verify_s3_upload(head_code, head_size,
                               IF collector = "kape" THEN file_size ELSE 0)

\* A UAC upload whose session was lost after all three recreations returns
\* success because the HEAD found the object.
C15_Witness ==
    /\ pc = "done" /\ collector = "uac"
    /\ loop_exit = "session_lost"
    /\ session_recreation_attempts = max_session_recreations
    /\ head_code = 200 /\ upload_success

\* C32: upload_uac_results calls end_session only on sessions it started
\* itself: the caller's existing_session is never ended, also when the
\* session is recreated during monitoring, and no session is ended twice.
C32_EndsOnlyOwnSessions ==
    collector = "uac" =>
        /\ \A s \in SessionIds : end_calls[s] > 0 => s \in started_sessions
        /\ existing_session # 0 => end_calls[existing_session] = 0
        /\ \A s \in SessionIds : end_calls[s] <= 1

Init == InitU /\ IdleP /\ IdleC /\ IdleB /\ IdleR /\ IdleK /\ IdleD /\ IdleX /\ IdleW /\ IdleM /\ IdleV /\ IdleL /\ IdleT /\ IdleO /\ IdleA /\ IdleG

Spec == Init /\ [][NextU]_vars


(***************************************************************************)
(* The long waits: FileManager.download_file (SHA retrieval, then content  *)
(* fetch), monitor_kape_execution and monitor_uac_execution.  Time moves   *)
(* only in the sleeps of the loops; one action is one loop iteration.      *)
(***************************************************************************)
\* managers.py:601, managers.py:665, collectors.py:1828, uac_collector.py:517
pulse_interval == 300
\* The control plane drops a session after ten minutes without a keepalive.
SessionTimeout == 600
\* managers.py:639
sha_sleep == 4
\* managers.py:650 and managers.py:719
content_sleep == 5
\* collectors.py:1825
kape_interval == 60
\* uac_collector.py:504
uac_interval == 30
\* uac_collector.py:691
archive_timeout == 900
\* uac_collector.py:710
archive_sleep == 10
\* Every loop's own timeout (2000 s, 18000 s, 7200 s, the profile's) is cut
\* down to this horizon.
Horizon == 700

\* The loop's test before it pulses.
PulseDue == now - last_pulse_time >= pulse_interval

\* The loop has run past its timeout.
TimedOut == now - phase_start > Horizon

InitP ==
    /\ phase \in {"sha", "kape_monitor", "uac_monitor"}
    /\ now = 0
    /\ phase_start = 0
    /\ last_pulse_time = 0
    /\ last_pulse_sent = 0
    /\ pulse_failed = FALSE
    /\ phase_result = "running"

\* The phase returns: the clock and the pulse bookkeeping stay as they are.
PhaseEnds(result) ==
    /\ phase_result' = result
    /\ UNCHANGED <<phase, now, phase_start>>

\* download_file, one iteration of the SHA loop.  A failed pulse returns
\* False; a SHA moves on to the content loop after a sleep of five seconds.
download_file_sha_poll ==
    /\ phase = "sha" /\ phase_result = "running"
    /\ IF TimedOut
       THEN /\ PhaseEnds("failed")
            /\ UNCHANGED <<last_pulse_time, last_pulse_sent, pulse_failed>>
       ELSE \E ok, found \in BOOLEAN :
              /\ last_pulse_sent' = IF PulseDue THEN now ELSE last_pulse_sent
              /\ pulse_failed' = (pulse_failed \/ (PulseDue /\ ~ok))
              /\ IF PulseDue /\ ~ok
                 THEN /\ PhaseEnds("failed")
                      /\ UNCHANGED last_pulse_time
                 ELSE IF found
                 THEN /\ phase' = "content"
                      /\ now' = now + content_sleep
                      /\ phase_start' = now + content_sleep
                      /\ last_pulse_time' = now + content_sleep
                      /\ UNCHANGED phase_result
                 ELSE /\ now' = now + sha_sleep
                      /\ last_pulse_time' = IF PulseDue THEN now ELSE last_pulse_time
                      /\ UNCHANGED <<phase, phase_start, phase_result>>
    /\ UNCHANGED othersP

\* download_file, one iteration of the content loop.  A failed pulse is
\* logged and the loop goes on.
download_file_content_poll ==
    /\ phase = "content" /\ phase_result = "running"
    /\ IF TimedOut
       THEN /\ PhaseEnds("failed")
            /\ UNCHANGED <<last_pulse_time, last_pulse_sent, pulse_failed>>
       ELSE \E ok, bytes \in BOOLEAN :
              /\ last_pulse_sent' = IF PulseDue THEN now ELSE last_pulse_sent
              /\ pulse_failed' = (pulse_failed \/ (PulseDue /\ ~ok))
              /\ last_pulse_time' = IF PulseDue /\ ok THEN now ELSE last_pulse_time
              /\ IF bytes
                 THEN PhaseEnds("success")
                 ELSE /\ now' = now + content_sleep
                      /\ UNCHANGED <<phase, phase_start, phase_result>>
    /\ UNCHANGED othersP

\* monitor_kape_execution, one iteration.  `ps` is what the process listing
\* gave: no result, kape.exe absent, or kape.exe present.
monitor_kape_execution_poll ==
    /\ phase = "kape_monitor" /\ phase_result = "running"
    /\ IF TimedOut
       THEN /\ PhaseEnds("failed")
            /\ UNCHANGED <<last_pulse_time, last_pulse_sent, pulse_failed>>
       ELSE \E ok \in BOOLEAN, ps \in {"none", "absent", "present"} :
              /\ last_pulse_sent' = IF PulseDue THEN now ELSE last_pulse_sent
              /\ pulse_failed' = (pulse_failed \/ (PulseDue /\ ~ok))
              /\ last_pulse_time' = IF PulseDue /\ ok THEN now ELSE last_pulse_time
              /\ IF ps = "none" THEN PhaseEnds("failed")
                 ELSE IF ps = "absent" THEN PhaseEnds("success")
                 ELSE /\ now' = now + kape_interval
                      /\ UNCHANGED <<phase, phase_start, phase_result>>
    /\ UNCHANGED othersP

\* monitor_uac_execution, one iteration of the outer loop.  last_pulse_time
\* is set after the pulse whatever it returned.  `seen` is what the
\* iteration found: no listing, the archive, exit code 0 without an archive
\* yet, a non-zero exit code, or the collector still running.
monitor_uac_execution_poll ==
    /\ phase = "uac_monitor" /\ phase_result = "running"
    /\ \E ok \in BOOLEAN,
          seen \in {"none", "archive", "exit0", "exit_error", "running"} :
         /\ last_pulse_sent' = IF PulseDue THEN now ELSE last_pulse_sent
         /\ pulse_failed' = (pulse_failed \/ (PulseDue /\ ~ok))
         /\ last_pulse_time' = IF PulseDue THEN now ELSE last_pulse_time
         /\ IF TimedOut \/ seen \in {"none", "exit_error"}
            THEN PhaseEnds("failed")
            ELSE IF seen = "archive" THEN PhaseEnds("success")
            ELSE IF seen = "exit0"
            THEN /\ phase' = "uac_archive_wait"
                 /\ phase_start' = now
                 /\ UNCHANGED <<now, phase_result>>
            ELSE /\ now' = now + uac_interval
                 /\ UNCHANGED <<phase, phase_start, phase_result>>
    /\ UNCHANGED othersP

\* monitor_uac_execution, one iteration of the wait for the archive after
\* exit code 0.  The loop lists the evidence directory and sleeps; it does
\* not pulse.
monitor_uac_archive_wait ==
    /\ phase = "uac_archive_wait" /\ phase_result = "running"
    /\ IF now - phase_start < archive_timeout
       THEN \E found \in BOOLEAN :
              IF found THEN PhaseEnds("success")
              ELSE /\ now' = now + archive_sleep
                   /\ UNCHANGED <<phase, phase_start, phase_result>>
       ELSE PhaseEnds("failed")
    /\ UNCHANGED <<last_pulse_time, last_pulse_sent, pulse_failed>>
    /\ UNCHANGED othersP

NextP ==
    \/ download_file_sha_poll
    \/ download_file_content_poll
    \/ monitor_kape_execution_poll
    \/ monitor_uac_execution_poll
    \/ monitor_uac_archive_wait

InitPulse == InitP /\ IdleU /\ IdleC /\ IdleB /\ IdleR /\ IdleK /\ IdleD /\ IdleX /\ IdleW /\ IdleM /\ IdleV /\ IdleL /\ IdleT /\ IdleO /\ IdleA /\ IdleG

SpecPulse == InitPulse /\ [][NextP]_vars

\* C2: while the session is open in a long-wait phase, the time since the
\* last pulse never reaches the session timeout of 600 s.
C2_PulseWithinTimeout ==
    phase_result = "running" => now - last_pulse_sent < SessionTimeout

\* C33: the recorded last-pulse time advances only through a pulse that
\* succeeded: in the loop pass in which a pulse call of the run first
\* fails, last_pulse_time stays as it was, so that the next pass finds the
\* pulse still due.
C33_FailedPulseKeepsLastPulseTime ==
    [][(~pulse_failed /\ pulse_failed') => last_pulse_time' = last_pulse_time]_vars

\* C10: a phase in which a pulse failed does not end in success; no
\* long-wait phase of this model re-opens a session, so after a failed pulse
\* the only recovery left to it is to fail.
C10_FailedPulseFailsPhase ==
    phase_result = "success" => ~pulse_failed


(***************************************************************************)
(* PreExecutionCleanup.ensure_clean_environment and the deploy that        *)
(* run_kape_collection and run_uac_collection start once it returned True. *)
(* Every step is a remote command, so the endpoint can move between two    *)
(* steps.  A Boolean drawn in a step is whether its command gave a result. *)
(***************************************************************************)
\* Most collector processes an earlier run has left behind.
MaxLeftover == 2

InitC ==
    /\ cpc = "check"
    /\ platform \in {"windows", "unix"}
    /\ leftover \in 0..MaxLeftover
    /\ ws \in {"absent", "empty", "dirty"}
    /\ clean_result = "pending"
    /\ ws_before_deploy = "unknown"
    /\ wait_elapsed = 0
    /\ failed_step = "none"
    /\ verify_sweep = "none"

\* _check_running_processes, the number of processes it returns: a sweep
\* whose command gives no result returns none.
_check_running_processes(swept) == IF swept THEN leftover ELSE 0

\* _workspace_exists: a check whose command gives no result says no.
_workspace_exists(checked) == checked /\ ws # "absent"

\* _workspace_is_empty: a count whose command gives no result says no.
_workspace_is_empty(counted) == counted /\ ws = "empty"

\* max_wait and the sleep of _wait_for_process_termination.
max_wait == 30
wait_sleep == 2

\* The step is recorded as failed unless an earlier one already is.
StepFails(step) ==
    failed_step' = IF failed_step = "none" THEN step ELSE failed_step

\* ensure_clean_environment returns False because of the named step.
PreconditionFailed(step) ==
    /\ clean_result' = "failed"
    /\ cpc' = "returned"
    /\ StepFails(step)

\* Step 1, the sweep for running collector processes.
ensure_clean_check ==
    /\ cpc = "check"
    /\ \E swept \in BOOLEAN :
         cpc' = IF _check_running_processes(swept) > 0 THEN "terminate"
                ELSE "exists"
    /\ UNCHANGED <<platform, leftover, ws, clean_result, ws_before_deploy,
                   wait_elapsed, failed_step>>
    /\ UNCHANGED verify_sweep
    /\ UNCHANGED othersC

\* Step 2: kill each process the sweep found.  `killed` is whether every
\* kill command succeeded.
ensure_clean_terminate ==
    /\ cpc = "terminate"
    /\ \E killed \in BOOLEAN :
         IF killed
         THEN /\ leftover' \in 0..leftover
              /\ cpc' = "wait"
              /\ UNCHANGED <<clean_result, failed_step>>
         ELSE /\ PreconditionFailed("terminate")
              /\ leftover' \in 0..leftover
    /\ UNCHANGED <<platform, ws, ws_before_deploy, wait_elapsed>>
    /\ UNCHANGED verify_sweep
    /\ UNCHANGED othersC

\* Step 3: one turn of the loop of _wait_for_process_termination, or its
\* end after max_wait seconds.  ensure_clean_environment calls it as a
\* statement of its own: the value it returns is dropped and step 4 follows
\* whatever it was.
wait_for_process_termination ==
    /\ cpc = "wait"
    /\ IF wait_elapsed < max_wait
       THEN \E swept \in BOOLEAN :
              IF _check_running_processes(swept) = 0
              THEN /\ cpc' = "exists"
                   /\ UNCHANGED <<wait_elapsed, clean_result, failed_step>>
              ELSE /\ wait_elapsed' = wait_elapsed + wait_sleep
                   /\ UNCHANGED <<cpc, clean_result, failed_step>>
       ELSE /\ cpc' = "exists"
            /\ StepFails("wait")
            /\ UNCHANGED <<wait_elapsed, clean_result>>
    /\ UNCHANGED <<platform, leftover, ws, ws_before_deploy>>
    /\ UNCHANGED verify_sweep
    /\ UNCHANGED othersC

\* Step 4: _workspace_exists, then _clean_workspace_directory with its own
\* check that the directory is gone.
ensure_clean_workspace ==
    /\ cpc = "exists"
    /\ \E checked, ran, gone, rechecked \in BOOLEAN :
         IF ~_workspace_exists(checked)
         THEN /\ cpc' = "create"
              /\ UNCHANGED <<ws, clean_result, failed_step>>
         ELSE IF ~ran
         THEN /\ PreconditionFailed("clean")
              /\ UNCHANGED ws
         ELSE /\ ws' = IF gone THEN "absent" ELSE ws
              /\ IF gone \/ ~rechecked
                 THEN cpc' = "create" /\ UNCHANGED <<clean_result, failed_step>>
                 ELSE PreconditionFailed("clean")
    /\ UNCHANGED <<platform, leftover, ws_before_deploy, wait_elapsed>>
    /\ UNCHANGED verify_sweep
    /\ UNCHANGED othersC

\* Step 5: _create_fresh_workspace, mkdir and the check that it exists.
ensure_clean_create ==
    /\ cpc = "create"
    /\ \E ran, checked \in BOOLEAN :
         IF ~ran
         THEN /\ PreconditionFailed("create")
              /\ UNCHANGED ws
         ELSE /\ ws' = IF ws = "absent" THEN "empty" ELSE ws
              /\ IF checked
                 THEN cpc' = "verify" /\ UNCHANGED <<clean_result, failed_step>>
                 ELSE PreconditionFailed("create")
    /\ UNCHANGED <<platform, leftover, ws_before_deploy, wait_elapsed>>
    /\ UNCHANGED verify_sweep
    /\ UNCHANGED othersC

\* Step 6: _verify_clean_environment decides what the function returns.
ensure_clean_verify ==
    /\ cpc = "verify"
    /\ \E swept, checked, counted \in BOOLEAN :
         /\ verify_sweep' = IF swept THEN "ran" ELSE "no_result"
         /\ IF /\ _check_running_processes(swept) = 0
               /\ _workspace_exists(checked)
               /\ _workspace_is_empty(counted)
            THEN /\ clean_result' = "clean"
                 /\ cpc' = "returned"
                 /\ UNCHANGED failed_step
            ELSE PreconditionFailed("verify")
    /\ UNCHANGED <<platform, leftover, ws, ws_before_deploy, wait_elapsed>>
    /\ UNCHANGED othersC

\* The caller: a run whose cleanup returned False returns None; otherwise it
\* changes into the workspace and puts the collector there.
run_collection_deploy ==
    /\ cpc = "returned"
    /\ IF clean_result = "clean"
       THEN /\ ws_before_deploy' = ws
            /\ ws' = "dirty"
            /\ cpc' = "deployed"
       ELSE /\ cpc' = "failed"
            /\ UNCHANGED <<ws, ws_before_deploy>>
    /\ UNCHANGED <<platform, leftover, clean_result, wait_elapsed, failed_step>>
    /\ UNCHANGED verify_sweep
    /\ UNCHANGED othersC

\* The earlier run's collector writes into the workspace.
LeftoverWrites ==
    /\ cpc \notin {"deployed", "failed"}
    /\ leftover > 0 /\ ws = "empty"
    /\ ws' = "dirty"
    /\ UNCHANGED <<cpc, platform, leftover, clean_result, ws_before_deploy,
                   wait_elapsed, failed_step>>
    /\ UNCHANGED verify_sweep
    /\ UNCHANGED othersC

\* The earlier run's collector ends by itself.
LeftoverExits ==
    /\ cpc \notin {"deployed", "failed"}
    /\ leftover > 0
    /\ leftover' = leftover - 1
    /\ UNCHANGED <<cpc, platform, ws, clean_result, ws_before_deploy,
                   wait_elapsed, failed_step>>
    /\ UNCHANGED verify_sweep
    /\ UNCHANGED othersC

NextC ==
    \/ ensure_clean_check
    \/ ensure_clean_terminate
    \/ wait_for_process_termination
    \/ ensure_clean_workspace
    \/ ensure_clean_create
    \/ ensure_clean_verify
    \/ run_collection_deploy
    \/ LeftoverWrites
    \/ LeftoverExits

InitClean == InitC /\ IdleU /\ IdleP /\ IdleB /\ IdleR /\ IdleK /\ IdleD /\ IdleX /\ IdleW /\ IdleM /\ IdleV /\ IdleL /\ IdleT /\ IdleO /\ IdleA /\ IdleG

SpecClean == InitClean /\ [][NextC]_vars

\* C3: a triage run either returns with a precondition failure before it
\* deploys, or the workspace was empty immediately before the deploy.
C3_EmptyBeforeDeploy ==
    /\ cpc = "deployed" => ws_before_deploy = "empty"
    /\ cpc = "failed" => ws_before_deploy = "unknown"

\* C22: when a cleanup step has failed, the wait for the processes to be
\* gone included, ensure_clean_environment does not return True and the
\* collection does not deploy.
C22_StepFailureAborts ==
    failed_step # "none" =>
        /\ clean_result # "clean"
        /\ cpc # "deployed"

\* C38: ensure_clean_environment returns True only if the process sweep of
\* its verification gave a result and that result held no collector process;
\* a sweep whose command gave nothing is not taken to mean that no process
\* runs.
C38_CleanOnlyAfterSweepRan ==
    clean_result = "clean" => verify_sweep = "ran"


(***************************************************************************)
(* Batch mode: OptimizedFalconForensicOrchestrator.run_kape_batch and      *)
(* run_uac_batch.  One worker per target; the targets of one customer-id   *)
(* share a SessionManager, a FileManager and a collector.                  *)
(* start_session is taken to return a session with an id of its own, as    *)
(* SessionManager records it, and end_session to delete the session.       *)
(***************************************************************************)
\* Targets of the batch call, one worker each.
MaxHosts == 2
\* Sessions the control plane hands out in one run; start_session fails
\* once they are used up.
MaxSessions == 5

Workers == 1..MaxHosts
Agents == {1, 2, 3}
Cids == {1, 2}
BatchSessionIds == 1..MaxSessions

\* HostInfo.cid of an agent: agents 1 and 2 sit in customer-id 1.
CidOf(a) == IF a <= 2 THEN 1 ELSE 2

\* hosts_by_cid[c], as workers.
HostsOfCid(c) == {w \in Workers : CidOf(targets[w]) = c}

FreeIds == {i \in BatchSessionIds : sess_agent[i] = 0}

FreshId == CHOOSE i \in FreeIds : \A j \in FreeIds : i <= j

\* A session manager that never closes a session.
end_session_keeps_open(open, s) == open

\* SessionManager.end_session, its effect on the control plane.
end_session(open, s) == open \ {s}

InitB ==
    /\ mode \in {"kape", "uac"}
    /\ targets \in [Workers -> Agents]
    /\ cid_pc = [c \in Cids |->
                   IF mode = "kape" /\ HostsOfCid(c) # {} THEN "start" ELSE "none"]
    /\ _cloud_upload_lock = 0
    /\ \E earlier \in [Cids -> BOOLEAN] :
         /\ mode = "uac" => \A c \in Cids : ~earlier[c]
         /\ _cloud_files_uploaded =
              [c \in Cids |-> IF earlier[c] THEN {"kape.zip", "deploy_kape.ps1"}
                              ELSE {}]
    /\ put_uploads =
         [c \in Cids |-> [n \in {"kape.zip", "deploy_kape.ps1", "uac.zip"} |->
             IF n \in _cloud_files_uploaded[c] THEN 1 ELSE 0]]
    /\ wpc = [w \in Workers |-> IF mode = "uac" THEN "put_list" ELSE "waiting"]
    /\ wsession = [w \in Workers |-> 0]
    /\ cp_open = {}
    /\ sess_agent = [i \in BatchSessionIds |-> 0]
    /\ sess_owner = [i \in BatchSessionIds |-> 0]
    /\ wrecreations = [w \in Workers |-> 0]

\* SessionManager.start_session for worker w, when the control plane
\* answers 201.
StartSessionFor(w) ==
    /\ FreeIds # {}
    /\ wsession' = [wsession EXCEPT ![w] = FreshId]
    /\ cp_open' = cp_open \cup {FreshId}
    /\ sess_agent' = [sess_agent EXCEPT ![FreshId] = targets[w]]
    /\ sess_owner' = [sess_owner EXCEPT ![FreshId] = w]

\* run_uac_collection, the put-file part, its first step: list the cloud
\* files of the customer-id.  No lock is taken.
run_uac_collection_list(w) ==
    /\ mode = "uac" /\ wpc[w] = "put_list"
    /\ wpc' = [wpc EXCEPT ![w] = "put_file"]
    /\ UNCHANGED <<mode, targets, cid_pc, _cloud_upload_lock,
                   _cloud_files_uploaded, put_uploads, wsession, cp_open,
                   sess_agent, sess_owner, wrecreations>>
    /\ UNCHANGED othersB

\* run_uac_collection, the put-file part after the listing: delete an
\* existing uac.zip, upload it again, verify.  Every call uploads; there is
\* no lock and no memo.
run_uac_collection_put_file(w) ==
    /\ mode = "uac" /\ wpc[w] = "put_file"
    /\ \E uploaded \in BOOLEAN :
         IF uploaded
         THEN /\ put_uploads' =
                   [put_uploads EXCEPT ![CidOf(targets[w])]["uac.zip"] = @ + 1]
              /\ wpc' = [wpc EXCEPT ![w] = "start"]
         ELSE /\ wpc' = [wpc EXCEPT ![w] = "done"]
              /\ UNCHANGED put_uploads
    /\ UNCHANGED <<mode, targets, cid_pc, _cloud_upload_lock,
                   _cloud_files_uploaded, wsession, cp_open, sess_agent,
                   sess_owner, wrecreations>>
    /\ UNCHANGED othersB

\* run_uac_collection, start_session.
run_uac_collection_start(w) ==
    /\ mode = "uac" /\ wpc[w] = "start"
    /\ \/ /\ StartSessionFor(w)
          /\ wpc' = [wpc EXCEPT ![w] = "collect"]
       \/ /\ wpc' = [wpc EXCEPT ![w] = "done"]
          /\ UNCHANGED <<wsession, cp_open, sess_agent, sess_owner>>
    /\ UNCHANGED <<mode, targets, cid_pc, _cloud_upload_lock,
                   _cloud_files_uploaded, put_uploads, wrecreations>>
    /\ UNCHANGED othersB

\* run_uac_collection from the cleanup to its finally block, which ends the
\* session; _process_single_uac goes on to the upload when a file came back.
run_uac_collection_end(w) ==
    /\ mode = "uac" /\ wpc[w] = "collect"
    /\ cp_open' = end_session(cp_open, wsession[w])
    /\ wsession' = [wsession EXCEPT ![w] = 0]
    /\ \E collection_file \in BOOLEAN :
         wpc' = [wpc EXCEPT ![w] = IF collection_file THEN "upload_start"
                                   ELSE "done"]
    /\ UNCHANGED <<mode, targets, cid_pc, _cloud_upload_lock,
                   _cloud_files_uploaded, put_uploads, sess_agent, sess_owner,
                   wrecreations>>
    /\ UNCHANGED othersB

\* upload_uac_results as _process_single_uac calls it, start_session.
process_single_uac_upload_start(w) ==
    /\ mode = "uac" /\ wpc[w] = "upload_start"
    /\ \/ /\ StartSessionFor(w)
          /\ wpc' = [wpc EXCEPT ![w] = "upload"]
       \/ /\ wpc' = [wpc EXCEPT ![w] = "done"]
          /\ UNCHANGED <<wsession, cp_open, sess_agent, sess_owner>>
    /\ UNCHANGED <<mode, targets, cid_pc, _cloud_upload_lock,
                   _cloud_files_uploaded, put_uploads, wrecreations>>
    /\ UNCHANGED othersB


\* upload_uac_results, the monitoring loop's session recreation: the old
\* session is ended, then a new one is started; when that fails the loop
\* breaks with the ended session still in hand.
process_single_uac_upload_recreate(w) ==
    /\ mode = "uac" /\ wpc[w] = "upload"
    /\ wrecreations[w] < max_session_recreations
    /\ wrecreations' = [wrecreations EXCEPT ![w] = @ + 1]
    /\ \/ /\ FreeIds # {}
          /\ wsession' = [wsession EXCEPT ![w] = FreshId]
          /\ cp_open' = end_session(cp_open, wsession[w]) \cup {FreshId}
          /\ sess_agent' = [sess_agent EXCEPT ![FreshId] = targets[w]]
          /\ sess_owner' = [sess_owner EXCEPT ![FreshId] = w]
          /\ UNCHANGED wpc
       \/ /\ cp_open' = end_session(cp_open, wsession[w])
          /\ wpc' = [wpc EXCEPT ![w] = "upload_lost"]
          /\ UNCHANGED <<wsession, sess_agent, sess_owner>>
    /\ UNCHANGED <<mode, targets, cid_pc, _cloud_upload_lock,
                   _cloud_files_uploaded, put_uploads>>
    /\ UNCHANGED othersB

\* upload_uac_results, from the end of the loop through the finally block:
\* the session the upload started is ended.
process_single_uac_upload_end(w) ==
    /\ mode = "uac" /\ wpc[w] \in {"upload", "upload_lost"}
    /\ cp_open' = end_session(cp_open, wsession[w])
    /\ wsession' = [wsession EXCEPT ![w] = 0]
    /\ wpc' = [wpc EXCEPT ![w] = "done"]
    /\ UNCHANGED <<mode, targets, cid_pc, _cloud_upload_lock,
                   _cloud_files_uploaded, put_uploads, sess_agent, sess_owner,
                   wrecreations>>
    /\ UNCHANGED othersB

\* Every host of customer-id c is marked failed.
MarkHostsFailed(c) ==
    wpc' = [w \in Workers |-> IF w \in HostsOfCid(c) THEN "done" ELSE wpc[w]]

\* _upload_kape_cloud_files_once, entering "with self._cloud_upload_lock".
upload_kape_cloud_files_once_acquire(c) ==
    /\ mode = "kape" /\ cid_pc[c] = "start"
    /\ _cloud_upload_lock = 0
    /\ _cloud_upload_lock' = c
    /\ cid_pc' = [cid_pc EXCEPT ![c] = "locked"]
    /\ UNCHANGED <<mode, targets, _cloud_files_uploaded, put_uploads, wpc,
                   wsession, cp_open, sess_agent, sess_owner, wrecreations>>
    /\ UNCHANGED othersB

\* _upload_kape_cloud_files_once, the body under the lock, and the caller's
\* reaction to its result in _process_kape_batch_for_cid.
upload_kape_cloud_files_once_body(c) ==
    /\ mode = "kape" /\ cid_pc[c] = "locked" /\ _cloud_upload_lock = c
    /\ _cloud_upload_lock' = 0
    /\ IF "kape.zip" \in _cloud_files_uploaded[c]
       THEN /\ cid_pc' = [cid_pc EXCEPT ![c] = "init_sessions"]
            /\ UNCHANGED <<_cloud_files_uploaded, put_uploads, wpc>>
       ELSE \E zip_ok \in BOOLEAN, script_ok \in BOOLEAN :
              /\ put_uploads' =
                   [put_uploads EXCEPT
                      ![c]["kape.zip"] = IF zip_ok THEN @ + 1 ELSE @,
                      ![c]["deploy_kape.ps1"] =
                          IF zip_ok /\ script_ok THEN @ + 1 ELSE @]
              /\ IF zip_ok /\ script_ok
                 THEN /\ _cloud_files_uploaded' =
                           [_cloud_files_uploaded EXCEPT
                              ![c] = @ \cup {"kape.zip", "deploy_kape.ps1"}]
                      /\ cid_pc' = [cid_pc EXCEPT ![c] = "init_sessions"]
                      /\ UNCHANGED wpc
                 ELSE /\ cid_pc' = [cid_pc EXCEPT ![c] = "failed"]
                      /\ MarkHostsFailed(c)
                      /\ UNCHANGED _cloud_files_uploaded
    /\ UNCHANGED <<mode, targets, wsession, cp_open, sess_agent, sess_owner,
                   wrecreations>>
    /\ UNCHANGED othersB

\* The devices of customer-id c, each once: the batch response is keyed by
\* device id.
DevicesOfCid(c) == {targets[w] : w \in HostsOfCid(c)}

\* The session id the batch response gives device a.
BatchSessionFor(c, a) ==
    CHOOSE i \in FreeIds :
        Cardinality({j \in FreeIds : j < i}) =
            Cardinality({b \in DevicesOfCid(c) : b < a})

\* _process_kape_batch_for_cid, batch_init_sessions: one session per device,
\* kept in the client's _active_sessions and never deleted by the batch.
process_kape_batch_init_sessions(c) ==
    /\ mode = "kape" /\ cid_pc[c] = "init_sessions"
    /\ \/ /\ Cardinality(FreeIds) >= Cardinality(DevicesOfCid(c))
          /\ cp_open' = cp_open \cup
                          {BatchSessionFor(c, a) : a \in DevicesOfCid(c)}
          /\ sess_agent' =
               [i \in BatchSessionIds |->
                  IF \E a \in DevicesOfCid(c) : BatchSessionFor(c, a) = i
                  THEN CHOOSE a \in DevicesOfCid(c) : BatchSessionFor(c, a) = i
                  ELSE sess_agent[i]]
          /\ cid_pc' = [cid_pc EXCEPT ![c] = "running"]
          /\ UNCHANGED wpc
       \/ /\ cid_pc' = [cid_pc EXCEPT ![c] = "failed"]
          /\ MarkHostsFailed(c)
          /\ UNCHANGED <<cp_open, sess_agent>>
    /\ UNCHANGED <<mode, targets, _cloud_upload_lock, _cloud_files_uploaded,
                   put_uploads, wsession, sess_owner, wrecreations>>
    /\ UNCHANGED othersB

\* _run_kape_collection_no_upload, start_session for the worker's host.
run_kape_collection_no_upload_start(w) ==
    /\ mode = "kape" /\ wpc[w] = "waiting"
    /\ cid_pc[CidOf(targets[w])] = "running"
    /\ \/ /\ StartSessionFor(w)
          /\ wpc' = [wpc EXCEPT ![w] = "collect"]
       \/ /\ wpc' = [wpc EXCEPT ![w] = "done"]
          /\ UNCHANGED <<wsession, cp_open, sess_agent, sess_owner>>
    /\ UNCHANGED <<mode, targets, cid_pc, _cloud_upload_lock,
                   _cloud_files_uploaded, put_uploads, wrecreations>>
    /\ UNCHANGED othersB

\* _run_kape_collection_no_upload, from the cleanup call to the finally
\* block, which ends the session.
run_kape_collection_no_upload_end(w) ==
    /\ mode = "kape" /\ wpc[w] = "collect"
    /\ cp_open' = end_session(cp_open, wsession[w])
    /\ wsession' = [wsession EXCEPT ![w] = 0]
    /\ wpc' = [wpc EXCEPT ![w] = "done"]
    /\ UNCHANGED <<mode, targets, cid_pc, _cloud_upload_lock,
                   _cloud_files_uploaded, put_uploads, sess_agent, sess_owner,
                   wrecreations>>
    /\ UNCHANGED othersB

NextB ==
    \/ \E w \in Workers : run_uac_collection_list(w)
    \/ \E w \in Workers : run_uac_collection_put_file(w)
    \/ \E w \in Workers : run_uac_collection_start(w)
    \/ \E w \in Workers : run_uac_collection_end(w)
    \/ \E w \in Workers : process_single_uac_upload_start(w)
    \/ \E w \in Workers : process_single_uac_upload_recreate(w)
    \/ \E w \in Workers : process_single_uac_upload_end(w)
    \/ \E c \in Cids : upload_kape_cloud_files_once_acquire(c)
    \/ \E c \in Cids : upload_kape_cloud_files_once_body(c)
    \/ \E c \in Cids : process_kape_batch_init_sessions(c)
    \/ \E w \in Workers : run_kape_collection_no_upload_start(w)
    \/ \E w \in Workers : run_kape_collection_no_upload_end(w)

InitBatch == InitB /\ IdleU /\ IdleP /\ IdleC /\ IdleR /\ IdleK /\ IdleD /\ IdleX /\ IdleW /\ IdleM /\ IdleV /\ IdleL /\ IdleT /\ IdleO /\ IdleA /\ IdleG

SpecBatch == InitBatch /\ [][NextB]_vars


\* C7: within one process run at most one upload to the put-file repository
\* occurs for any (customer-id, put-file name), whatever the number of hosts
\* and parallel workers.
C7_AtMostOneUploadPerName ==
    \A c \in Cids : \A n \in DOMAIN put_uploads[c] : put_uploads[c][n] <= 1

\* C8: two sessions against the same agent are never open at the same time.
C8_OneOpenSessionPerAgent ==
    \A s \in cp_open : \A t \in cp_open :
        s # t => sess_agent[s] # sess_agent[t]

\* C34: when a KAPE batch run has returned, every worker being done, no
\* session that batch_init_sessions opened is still open on the control
\* plane.
C34_BatchSessionsDeleted ==
    (mode = "kape" /\ \A w \in Workers : wpc[w] = "done") =>
        \A s \in cp_open : sess_owner[s] # 0

\* Sessions worker w opened that are still open.
OwnOpenSessions(w) == {s \in cp_open : sess_owner[s] = w}

\* Worker w is between its first start_session and its return.
Working(w) == wpc[w] \in {"collect", "upload_start", "upload", "upload_lost"}

C11_PutFileStepsSerialized ==
    /\ \A w \in Workers : \A v \in Workers :
         (w # v /\ CidOf(targets[w]) = CidOf(targets[v]))
            => ~(wpc[w] = "put_file" /\ wpc[v] = "put_file")
    /\ \A c \in Cids : cid_pc[c] = "locked" => _cloud_upload_lock = c


(***************************************************************************)
(* Batch scheduling and the result map: run_kape_batch and run_uac_batch   *)
(* from the hostnames they are given to the map they return.  The hosts    *)
(* that resolve sit in one customer-id; what a host's collection does on   *)
(* the endpoint is an input, hosts[h].                                     *)
(***************************************************************************)
\* Hostnames given to one batch call.
MaxTargets == 3
\* Largest max_concurrent_hosts the orchestrator is built with.
MaxConcurrent == 2
\* max_workers=min(len(hosts), 10)
pool_cap == 10

Hostnames == 1..MaxTargets

\* How the environment answers for one hostname: it does not resolve, its
\* session cannot be opened, its collector fails, or its collection and
\* transfer complete.
HostBehaviours == {"unresolved", "no_session", "collector_fails", "completes"}

Min(a, b) == IF a <= b THEN a ELSE b

\* hosts_by_cid[cid], the hostnames whose host info was found.
Resolved == {h \in Hostnames : hosts[h] # "unresolved"}

\* Index of hostname h in hosts_by_cid[cid].
Pos(h) == Cardinality({g \in Resolved : g < h})

\* batch_size of _process_kape_batch_for_cid.
kape_batch_size == Min(pool_cap, max_concurrent_hosts)

\* The hosts handed to one ThreadPoolExecutor: hosts[i:i + batch_size] in
\* the KAPE batch, every host of the customer-id in the UAC batch.
CurrentGroup ==
    IF rmode = "kape"
    THEN {h \in Resolved :
            group_start <= Pos(h) /\ Pos(h) < group_start + kape_batch_size}
    ELSE Resolved

\* max_workers of that executor.
PoolSize == Min(Cardinality(CurrentGroup), pool_cap)

Running == {h \in Hostnames : hstate[h] = "running"}

\* The single-host call on a host that behaves as b: run_kape_collection or
\* run_uac_collection followed by the transfer of the archive.
single_host_collection(b) == b = "completes"

\* _process_single_uac: run_uac_collection, the primitive of the single-host
\* call, then the transfer.
_process_single_uac(b) == single_host_collection(b)

\* _process_single_kape: _run_kape_collection_no_upload returns None when the
\* session cannot be started, and otherwise calls
\* forensic_collector.perform_pre_execution_cleanup, which ForensicCollector
\* does not define: the AttributeError is caught and None is returned.
_process_single_kape(b) == IF b = "no_session" THEN FALSE ELSE FALSE

InitR ==
    /\ rmode \in {"kape", "uac"}
    /\ max_concurrent_hosts \in 1..MaxConcurrent
    /\ hosts \in [Hostnames -> HostBehaviours]
    /\ hstate = [h \in Hostnames |-> "given"]
    /\ results = [h \in Hostnames |-> "absent"]
    /\ rpc = "start"
    /\ group_start = 0

\* run_kape_batch / run_uac_batch: look the hostnames up and group the hosts
\* found by customer-id; a hostname without host info is logged and left
\* out.  run_kape_batch then builds ThreadPoolExecutor(max_workers=
\* min(len(hosts_by_cid), 5)), which raises ValueError for 0.
run_batch_resolve ==
    /\ rpc = "start"
    /\ hstate' = [h \in Hostnames |->
                    IF h \in Resolved THEN "pending" ELSE "unresolved"]
    /\ rpc' = IF rmode = "uac" THEN "running"
              ELSE IF Resolved = {} THEN "raised" ELSE "setup"
    /\ UNCHANGED <<rmode, max_concurrent_hosts, hosts, results, group_start>>
    /\ UNCHANGED othersR

\* _process_kape_batch_for_cid up to the first group: cloud files, batch
\* sessions, batch id.  A failure marks every host of the customer-id failed.
process_kape_batch_for_cid_setup ==
    /\ rpc = "setup"
    /\ \/ /\ rpc' = "running"
          /\ UNCHANGED <<hstate, results>>
       \/ /\ rpc' = "collected"
          /\ hstate' = [h \in Hostnames |->
                          IF h \in Resolved THEN "skipped" ELSE hstate[h]]
          /\ results' = [h \in Hostnames |->
                           IF h \in Resolved THEN "failed" ELSE results[h]]
    /\ UNCHANGED <<rmode, max_concurrent_hosts, hosts, group_start>>
    /\ UNCHANGED othersR

\* A worker of the executor takes the next submitted host.
process_single_host_start(h) ==
    /\ rpc = "running"
    /\ hstate[h] = "pending"
    /\ h \in CurrentGroup
    /\ Cardinality(Running) < PoolSize
    /\ hstate' = [hstate EXCEPT ![h] = "running"]
    /\ UNCHANGED <<rmode, max_concurrent_hosts, hosts, results, rpc,
                   group_start>>
    /\ UNCHANGED othersR

\* The worker returns and as_completed stores results[hostname].
process_single_host_end(h) ==
    /\ rpc = "running"
    /\ hstate[h] = "running"
    /\ hstate' = [hstate EXCEPT ![h] = "finished"]
    /\ results' = [results EXCEPT ![h] =
         IF (IF rmode = "kape" THEN _process_single_kape(hosts[h])
                               ELSE _process_single_uac(hosts[h]))
         THEN "ok" ELSE "failed"]
    /\ UNCHANGED <<rmode, max_concurrent_hosts, hosts, rpc, group_start>>
    /\ UNCHANGED othersR

\* _process_kape_batch_for_cid: the group is done, the next one starts.
process_kape_batch_next_group ==
    /\ rpc = "running" /\ rmode = "kape"
    /\ \A h \in CurrentGroup : hstate[h] = "finished"
    /\ group_start + kape_batch_size < Cardinality(Resolved)
    /\ group_start' = group_start + kape_batch_size
    /\ UNCHANGED <<rmode, max_concurrent_hosts, hosts, hstate, results, rpc>>
    /\ UNCHANGED othersR

\* The batch call returns its result map; run_uac_batch first adds False for
\* every hostname that has no entry.
run_batch_return ==
    /\ \/ rpc = "collected"
       \/ /\ rpc = "running"
          /\ \A h \in Resolved : hstate[h] = "finished"
    /\ rpc' = "returned"
    /\ results' = [h \in Hostnames |->
                     IF rmode = "uac" /\ results[h] = "absent" THEN "failed"
                     ELSE results[h]]
    /\ UNCHANGED <<rmode, max_concurrent_hosts, hosts, hstate, group_start>>
    /\ UNCHANGED othersR

NextR ==
    \/ run_batch_resolve
    \/ process_kape_batch_for_cid_setup
    \/ \E h \in Hostnames : process_single_host_start(h)
    \/ \E h \in Hostnames : process_single_host_end(h)
    \/ process_kape_batch_next_group
    \/ run_batch_return

InitSchedule == InitR /\ IdleU /\ IdleP /\ IdleC /\ IdleB /\ IdleK /\ IdleD /\ IdleX /\ IdleW /\ IdleM /\ IdleV /\ IdleL /\ IdleT /\ IdleO /\ IdleA /\ IdleG

SpecSchedule == InitSchedule /\ [][NextR]_vars

\* C12: a batch run returns a result map with an entry for every hostname it
\* was given; a hostname that does not resolve is recorded as failed and the
\* call still returns after processing the others.
C12_EveryHostnameHasEntry ==
    /\ rpc # "raised"
    /\ rpc = "returned" =>
         \A h \in Hostnames :
            /\ results[h] # "absent"
            /\ hosts[h] = "unresolved" => results[h] = "failed"

\* C13: within one customer-id the number of per-host collections running
\* at the same time never exceeds min(N, max_concurrent_hosts).
C13_RunningWithinPool ==
    Cardinality(Running) <= Min(Cardinality(Resolved), max_concurrent_hosts)

\* C14: a host's collection has the same outcome through the batch call as
\* through the single-host call under the same endpoint behaviour.
C14_BatchMatchesSingleHost ==
    \A h \in Hostnames :
        hstate[h] = "finished" =>
            (results[h] = "ok" <=> single_host_collection(hosts[h]))


(***************************************************************************)
(* Cancellation.  The command line runs every collection in a worker of a  *)
(* ThreadPoolExecutor (run_kape_sequential, run_uac_sequential: one        *)
(* worker) while the main thread waits in future.result().  No handler for *)
(* KeyboardInterrupt or for a signal is installed; the atexit hook only    *)
(* writes a log line.  An interrupt is raised in the main thread: leaving  *)
(* the with block waits for the worker (shutdown(wait=True)), a second     *)
(* interrupt breaks that wait and the interpreter joins the worker at      *)
(* exit, a third one ends the process with the worker.                     *)
(***************************************************************************)
\* Futures queued behind the one being run.
MaxQueued == 2

InitK ==
    /\ kcollector \in {"kape", "uac"}
    /\ kmain = "waiting"
    /\ kworker = "idle"
    /\ ksession = FALSE
    /\ kqueued \in 0..MaxQueued
    /\ kinterrupts = 0
    /\ kint_was_open = FALSE
    /\ kint_open = FALSE
    /\ kint_host = FALSE
    /\ kcleanup = FALSE

\* process_kape_single / process_uac_single begins: run_kape_collection or
\* run_uac_collection starts its session, or fails to.
process_single_begin ==
    /\ kmain # "exited" /\ kworker = "idle"
    /\ \E started \in BOOLEAN :
         /\ ksession' = started
         /\ kworker' = IF started THEN "collect" ELSE "returned"
    /\ UNCHANGED <<kcollector, kmain, kqueued, kinterrupts, kint_was_open,
                   kint_open, kint_host, kcleanup>>
    /\ UNCHANGED othersK

\* run_kape_collection / run_uac_collection returns: its finally block ends
\* the session and attempts no cleanup; with a collection file the upload
\* follows and starts a session of its own.
run_collection_finally ==
    /\ kmain # "exited" /\ kworker = "collect"
    /\ kint_open' = FALSE
    /\ \E uploading \in BOOLEAN :
         /\ ksession' = uploading
         /\ kworker' = IF uploading THEN "upload" ELSE "returned"
    /\ UNCHANGED <<kcollector, kmain, kqueued, kinterrupts, kint_was_open,
                   kint_host, kcleanup>>
    /\ UNCHANGED othersK

\* upload_kape_results / upload_uac_results returns.  The KAPE finally block
\* always attempts cleanup_workspace and then emergency_cleanup; the UAC
\* upload cleans the workspace only after a verified upload.  Both end the
\* session.
upload_results_finally ==
    /\ kmain # "exited" /\ kworker = "upload"
    /\ \E upload_ok \in BOOLEAN :
         kcleanup' = (kcleanup \/
                        (kint_host /\ (kcollector = "kape" \/ upload_ok)))
    /\ ksession' = FALSE
    /\ kint_open' = FALSE
    /\ kworker' = "returned"
    /\ UNCHANGED <<kcollector, kmain, kqueued, kinterrupts, kint_was_open,
                   kint_host>>
    /\ UNCHANGED othersK

\* The worker takes the next queued future; shutdown(wait=True) does not
\* cancel what is queued.
worker_next_future ==
    /\ kmain # "exited" /\ kworker = "returned"
    /\ kqueued > 0
    /\ kqueued' = kqueued - 1
    /\ kworker' = "idle"
    /\ kint_host' = FALSE
    /\ UNCHANGED <<kcollector, kmain, ksession, kinterrupts, kint_was_open,
                   kint_open, kcleanup>>
    /\ UNCHANGED othersK

\* The operator interrupts the process.
KeyboardInterrupt ==
    /\ kmain \in {"waiting", "shutdown_wait", "exit_join"}
    /\ kinterrupts' = kinterrupts + 1
    /\ kmain' = CASE kmain = "waiting" -> "shutdown_wait"
                  [] kmain = "shutdown_wait" -> "exit_join"
                  [] kmain = "exit_join" -> "exited"
    /\ IF kinterrupts = 0
       THEN /\ kint_was_open' = ksession
            /\ kint_open' = ksession
            /\ kint_host' = ksession
       ELSE UNCHANGED <<kint_was_open, kint_open, kint_host>>
    /\ UNCHANGED <<kcollector, kworker, ksession, kqueued, kcleanup>>
    /\ UNCHANGED othersK

\* Every future is done: the main thread leaves its wait and the process
\* exits (sys.exit, or the propagating KeyboardInterrupt).
main_exits ==
    /\ kmain \in {"waiting", "shutdown_wait", "exit_join"}
    /\ kworker = "returned" /\ kqueued = 0
    /\ kmain' = "exited"
    /\ UNCHANGED <<kcollector, kworker, ksession, kqueued, kinterrupts,
                   kint_was_open, kint_open, kint_host, kcleanup>>
    /\ UNCHANGED othersK

NextK ==
    \/ process_single_begin
    \/ run_collection_finally
    \/ upload_results_finally
    \/ worker_next_future
    \/ KeyboardInterrupt
    \/ main_exits

InitCancel == InitK /\ IdleU /\ IdleP /\ IdleC /\ IdleB /\ IdleR /\ IdleD /\ IdleX /\ IdleW /\ IdleM /\ IdleV /\ IdleL /\ IdleT /\ IdleO /\ IdleA /\ IdleG

SpecCancel == InitCancel /\ [][NextK]_vars

\* C16: on an operator's interrupt every session open at that moment is
\* closed and an emergency cleanup is attempted before the process exits.
C16_InterruptClosesAndCleans ==
    (kmain = "exited" /\ kinterrupts >= 1 /\ kint_was_open) =>
        /\ ~kint_open
        /\ kcleanup


(***************************************************************************)
(* FileManager.download_file: the `get` command, the wait for its          *)
(* completion, the SHA loop, the content loop and the local write.  Time   *)
(* advances by the loops' sleeps; the calls themselves take none.          *)
(***************************************************************************)
\* Largest buffer get_extracted_file_contents returns.
MaxBytes == 2
sha_timeout == 2000
content_timeout == 18000
\* max_retries = content_timeout // 5
max_retries == content_timeout \div content_sleep

\* The local_path arguments tried, as the components of the file name.
LocalPaths ==
    {<<"f">>, <<"f", ".7z">>, <<"f", ".zip">>, <<"f", ".tar">>,
     <<"f", ".vhdx">>, <<"f", ".tar", ".gz">>, <<"f", ".7Z">>,
     <<"f", ".bin">>, <<"f", ".7z", ".zip">>}

\* Path.suffix
Suffix(p) == IF Len(p) > 1 THEN p[Len(p)] ELSE ""

\* Path.with_suffix
with_suffix(p, ext) == [p EXCEPT ![Len(p)] = ext]

\* A download that writes to the path it was given.
keep_local_path(p) == p

\* local_path_7z as download_file computes it from local_path.
local_path_7z(p) ==
    IF Suffix(p) = ".7z" THEN p
    ELSE IF Suffix(p) \in {".zip", ".tar", ".gz", ".tar.gz", ".vhdx"}
    THEN with_suffix(p, ".7z")
    ELSE Append(p, ".7z")

\* An SHA loop without a timeout.
ShaNeverTimesOut(e) == FALSE

\* elapsed_time > sha_timeout
ShaTimedOut(e) == e > sha_timeout

\* A write that is not verified.
SizeUnchecked(saved, len) == TRUE

\* not (saved_size != len(file_contents))
SizeMatches(saved, len) == saved = len

InitD ==
    /\ dpc = "start"
    /\ local_path \in LocalPaths
    /\ get_issued = 0
    /\ elapsed_time = 0
    /\ last_sha_pulse_time = 0
    /\ retry_count = 0
    /\ other_error_seen = FALSE
    /\ received_len = -1
    /\ saved_size = 0
    /\ written_path = <<>>
    /\ download_result = "running"
    /\ download_exit = "none"

\* download_file returns False from the place named.
DownloadFails(exit) ==
    /\ dpc' = "done"
    /\ download_result' = "failed"
    /\ download_exit' = exit

\* download_file: compute local_path_7z and issue the `get` command.
download_file_get ==
    /\ dpc = "start"
    /\ get_issued' = get_issued + 1
    /\ \E created \in BOOLEAN :
         IF created
         THEN /\ dpc' = "get_wait"
              /\ UNCHANGED <<download_result, download_exit>>
         ELSE DownloadFails("get_failed")
    /\ UNCHANGED <<local_path, elapsed_time, last_sha_pulse_time, retry_count,
                   other_error_seen, received_len, saved_size, written_path>>
    /\ UNCHANGED othersD

\* download_file: poll the command status until it is complete, reports an
\* error or the size-derived timeout passes.
download_file_get_wait ==
    /\ dpc = "get_wait"
    /\ \E status \in {"complete", "stderr", "timeout"} :
         IF status = "complete"
         THEN /\ dpc' = "sha"
              /\ UNCHANGED <<download_result, download_exit>>
         ELSE DownloadFails(status)
    /\ UNCHANGED <<local_path, get_issued, elapsed_time, last_sha_pulse_time,
                   retry_count, other_error_seen, received_len, saved_size,
                   written_path>>
    /\ UNCHANGED othersD

\* download_file, one iteration of "while not file_sha".  The loop's clock
\* is local to it and is dropped when the SHA is there.
download_file_sha_loop ==
    /\ dpc = "sha"
    /\ IF ShaTimedOut(elapsed_time)
       THEN /\ DownloadFails("sha_timeout")
            /\ UNCHANGED <<elapsed_time, last_sha_pulse_time>>
       ELSE \E pulsed \in BOOLEAN, found \in BOOLEAN :
              LET due == elapsed_time - last_sha_pulse_time >= pulse_interval
              IN
              IF due /\ ~pulsed
              THEN /\ DownloadFails("pulse_failed")
                   /\ UNCHANGED <<elapsed_time, last_sha_pulse_time>>
              ELSE /\ IF found
                      THEN /\ dpc' = "content"
                           /\ elapsed_time' = 0
                           /\ last_sha_pulse_time' = 0
                      ELSE /\ elapsed_time' = elapsed_time + sha_sleep
                           /\ last_sha_pulse_time' =
                                IF due THEN elapsed_time
                                ELSE last_sha_pulse_time
                           /\ UNCHANGED dpc
                   /\ UNCHANGED <<download_result, download_exit>>
    /\ UNCHANGED <<local_path, get_issued, retry_count, other_error_seen,
                   received_len, saved_size, written_path>>
    /\ UNCHANGED othersD


\* download_file, one iteration of "while retry_count < max_retries", and
\* the return that follows the loop.  The response is bytes, a structured
\* error saying "Unknown file", another structured error, or nothing.  The
\* write leaves the whole buffer, a part of it, or raises IOError before or
\* after the file was created.
download_file_content_loop ==
    /\ dpc = "content"
    /\ IF ~(retry_count < max_retries)
       THEN /\ DownloadFails("max_retries")
            /\ UNCHANGED <<retry_count, other_error_seen, received_len,
                           saved_size, written_path>>
       ELSE \E response \in {"bytes", "unknown_file", "other_error", "none"} :
              IF response = "bytes"
              THEN \E n \in 0..MaxBytes, kept \in 0..MaxBytes,
                      io_error \in BOOLEAN, created \in BOOLEAN :
                     /\ kept <= n
                     /\ created \/ io_error
                     /\ received_len' = n
                     /\ written_path' = IF created
                                        THEN local_path_7z(local_path)
                                        ELSE written_path
                     /\ saved_size' = IF created THEN kept ELSE saved_size
                     /\ dpc' = "done"
                     /\ IF io_error
                        THEN /\ download_result' = "failed"
                             /\ download_exit' = "io_error"
                        ELSE IF SizeMatches(kept, n)
                        THEN /\ download_result' = "success"
                             /\ download_exit' = "saved"
                        ELSE /\ download_result' = "failed"
                             /\ download_exit' = "size_mismatch"
                     /\ UNCHANGED <<retry_count, other_error_seen>>
              ELSE /\ retry_count' = retry_count + 1
                   /\ other_error_seen' =
                        (other_error_seen \/ response = "other_error")
                   /\ UNCHANGED <<dpc, received_len, saved_size, written_path,
                                  download_result, download_exit>>
    /\ UNCHANGED <<local_path, get_issued, elapsed_time, last_sha_pulse_time>>
    /\ UNCHANGED othersD

NextD ==
    \/ download_file_get
    \/ download_file_get_wait
    \/ download_file_sha_loop
    \/ download_file_content_loop

InitDownload ==
    InitD /\ IdleU /\ IdleP /\ IdleC /\ IdleB /\ IdleR /\ IdleK /\ IdleX /\ IdleW /\ IdleM /\ IdleV /\ IdleL /\ IdleT /\ IdleO /\ IdleA /\ IdleG

SpecDownload == InitDownload /\ [][NextD]_vars

\* C17: during content fetch a structured error saying "Unknown file" lets
\* the polling continue, and any other structured error is fatal: once one
\* was received the download has failed.
C17_OtherErrorIsFatal ==
    other_error_seen => (dpc = "done" /\ download_result = "failed")

\* C18: one download issues the `get` command at most once; the SHA loop
\* does not run on past 2000 s, and a download that timed out there has
\* failed without another `get` and without a local file.
C18_GetIssuedOnce ==
    /\ get_issued <= 1
    /\ dpc = "sha" => elapsed_time <= sha_timeout + sha_sleep
    /\ download_exit = "sha_timeout" =>
         /\ download_result = "failed"
         /\ get_issued = 1
         /\ written_path = <<>>

\* The SHA never came and the download gave up after 2000 s.
C18_Witness ==
    /\ download_exit = "sha_timeout"
    /\ elapsed_time > sha_timeout
    /\ get_issued = 1

\* C19: a download reports success only after the received bytes were
\* written to the local destination and the file's size on disk equals the
\* length of the received buffer.
C19_SuccessOnlyAfterVerifiedWrite ==
    download_result = "success" =>
        /\ received_len >= 0
        /\ written_path = local_path_7z(local_path)
        /\ saved_size = received_len

\* A buffer of more than one byte was written in full and reported.
C19_Witness ==
    /\ download_result = "success"
    /\ received_len = MaxBytes
    /\ saved_size = MaxBytes

\* C20: every file the download writes has a path ending in .7z, whatever
\* the extension of the requested local path.
C20_WrittenPathEnds7z ==
    written_path # <<>> => written_path[Len(written_path)] = ".7z"

\* A path asked for as f.tar.gz was written as f.tar.7z.
C20_Witness ==
    /\ local_path = <<"f", ".tar", ".gz">>
    /\ written_path = <<"f", ".tar", ".7z">>
    /\ download_result = "success"

\* ---------------------------------------------------------------------------
\* Commands: SessionManager.execute_command, called by
\* UACCollector._execute_with_retry.  Time advances only by the sleeps of the
\* two functions.
\* ---------------------------------------------------------------------------

command_timeout == 600
check_interval == 2
initial_wait == 2
default_max_retries == 3
backoff_base == 2

\* max_retries of the status loop: command_timeout // check_interval.
status_max_retries == command_timeout \div check_interval

\* The max_retries arguments the call sites pass with the default
\* backoff_base (the default and 1); the call of upload_uac_results that
\* tests an existing session passes max_retries = 2 with backoff_base = 1.5.
RetryArguments == {1, default_max_retries}

\* The kinds of failure behind a None.  The api client catches every exception
\* of the control-plane call and returns None, so execute_command sees the same
\* falsy response for a network error and for any other error.
NetworkKinds == {"network", "timeout"}

linear_wait(a) == backoff_base * a

\* wait_time = backoff_base ** attempt
wait_time(a) == backoff_base ^ a

InitX ==
    /\ xpc = "submit"
    /\ x_max_retries \in RetryArguments
    /\ attempt = 0
    /\ tries = 0
    /\ waits = <<>>
    /\ retried_after = {}
    /\ xresult = "pending"
    /\ cmd_result = "pending"
    /\ cmd_exit = "none"
    /\ cmd_submitted = FALSE
    /\ cmd_waited = 0
    /\ cmd_retry_count = 0
    /\ failure_kind = "none"

\* execute_command returns None through the named return statement.
ReturnsNone(exit, kind) ==
    /\ cmd_result' = "None"
    /\ cmd_exit' = exit
    /\ failure_kind' = kind
    /\ xpc' = "cmd_returned"

\* execute_command up to the status loop: validation, the execute call, the
\* check of its status code, the cloud_request_id and the initial sleep.
execute_command_submit ==
    /\ xpc = "submit"
    /\ tries' = tries + 1
    /\ \E r \in {"invalid_session", "network_error", "other_error", "not_201",
                 "no_request_id", "started"} :
         CASE r = "invalid_session" ->
                /\ ReturnsNone("invalid_session", "other")
                /\ UNCHANGED <<cmd_submitted, cmd_waited>>
           [] r = "network_error" ->
                /\ ReturnsNone("execute_failed", "network")
                /\ UNCHANGED <<cmd_submitted, cmd_waited>>
           [] r = "other_error" ->
                /\ ReturnsNone("execute_failed", "other")
                /\ UNCHANGED <<cmd_submitted, cmd_waited>>
           [] r = "not_201" ->
                /\ ReturnsNone("not_201", "other")
                /\ UNCHANGED <<cmd_submitted, cmd_waited>>
           [] r = "no_request_id" ->
                /\ ReturnsNone("no_request_id", "other")
                /\ UNCHANGED <<cmd_submitted, cmd_waited>>
           [] r = "started" ->
                /\ cmd_submitted' = TRUE
                /\ cmd_waited' = initial_wait
                /\ xpc' = "poll"
                /\ UNCHANGED <<cmd_result, cmd_exit, failure_kind>>
    /\ UNCHANGED <<x_max_retries, attempt, waits, retried_after, xresult,
                   cmd_retry_count>>
    /\ UNCHANGED othersX

\* One turn of the status loop of execute_command, or its end.
execute_command_poll ==
    /\ xpc = "poll"
    /\ IF cmd_retry_count < status_max_retries
       THEN \E r \in {"network_error", "other_error", "complete", "running",
                      "unparsable"} :
              CASE r = "network_error" ->
                     /\ ReturnsNone("status_check_failed", "network")
                     /\ UNCHANGED <<cmd_waited, cmd_retry_count>>
                [] r = "other_error" ->
                     /\ ReturnsNone("status_check_failed", "other")
                     /\ UNCHANGED <<cmd_waited, cmd_retry_count>>
                [] r = "complete" ->
                     /\ cmd_result' = "CommandResult"
                     /\ cmd_exit' = "complete"
                     /\ xpc' = "cmd_returned"
                     /\ UNCHANGED <<cmd_waited, cmd_retry_count, failure_kind>>
                [] OTHER ->
                     /\ cmd_waited' = cmd_waited + check_interval
                     /\ cmd_retry_count' = cmd_retry_count + 1
                     /\ UNCHANGED <<xpc, cmd_result, cmd_exit, failure_kind>>
       ELSE /\ ReturnsNone("timeout", "timeout")
            /\ UNCHANGED <<cmd_waited, cmd_retry_count>>
    /\ UNCHANGED <<x_max_retries, attempt, tries, waits, retried_after,
                   xresult, cmd_submitted>>
    /\ UNCHANGED othersX

\* _execute_with_retry after execute_command returned: return the result, or
\* sleep and try again, or give up.  execute_command catches every exception
\* itself, so the loop always continues through its None branch.
execute_with_retry_next ==
    /\ xpc = "cmd_returned"
    /\ IF cmd_result = "CommandResult"
       THEN /\ xresult' = "CommandResult"
            /\ xpc' = "returned"
            /\ UNCHANGED <<attempt, waits, retried_after, cmd_result, cmd_exit,
                           cmd_submitted, cmd_waited, cmd_retry_count,
                           failure_kind>>
       ELSE IF attempt < x_max_retries
            THEN /\ waits' = Append(waits, wait_time(attempt))
                 /\ retried_after' = retried_after \cup {failure_kind}
                 /\ attempt' = attempt + 1
                 /\ cmd_result' = "pending"
                 /\ cmd_exit' = "none"
                 /\ cmd_submitted' = FALSE
                 /\ cmd_waited' = 0
                 /\ cmd_retry_count' = 0
                 /\ failure_kind' = "none"
                 /\ xpc' = "submit"
                 /\ UNCHANGED xresult
            ELSE /\ xresult' = "None"
                 /\ xpc' = "returned"
                 /\ UNCHANGED <<attempt, waits, retried_after, cmd_result,
                                cmd_exit, cmd_submitted, cmd_waited,
                                cmd_retry_count, failure_kind>>
    /\ UNCHANGED <<x_max_retries, tries>>
    /\ UNCHANGED othersX

NextX ==
    \/ execute_command_submit
    \/ execute_command_poll
    \/ execute_with_retry_next

InitCommand ==
    InitX /\ IdleU /\ IdleP /\ IdleC /\ IdleB /\ IdleR /\ IdleK /\ IdleD /\ IdleW /\ IdleM /\ IdleV /\ IdleL /\ IdleT /\ IdleO /\ IdleA /\ IdleG

SpecCommand == InitCommand /\ [][NextX]_vars

\* C21: a command that was submitted ends, from the caller's view, either with
\* a result whose complete flag is true or with the timeout, and the timeout
\* only once the total-wait deadline of command_timeout seconds has passed.
C21_CompleteOrTimeout ==
    (cmd_submitted /\ cmd_result \notin {"pending", "idle"}) =>
        \/ cmd_result = "CommandResult" /\ cmd_exit = "complete"
        \/ /\ cmd_result = "None"
           /\ cmd_exit = "timeout"
           /\ cmd_waited >= command_timeout

\* C28 as stated: a call that keeps failing is tried at most 3 times in total,
\* with waits of 2 ** attempt between the tries.
C28_AtMostThreeTries ==
    /\ tries <= 3
    /\ \A i \in 1..Len(waits) : waits[i] = 2 ^ (i - 1)

\* C28 amended: a call that keeps failing is tried at most max_retries + 1
\* times in total, 4 with the default max_retries of 3, with waits of
\* 2 ** attempt (1, 2, 4 seconds) between the tries.
C28_AtMostMaxRetriesPlusOneTries ==
    /\ tries <= x_max_retries + 1
    /\ tries <= default_max_retries + 1
    /\ Len(waits) = attempt
    /\ \A i \in 1..Len(waits) : waits[i] = 2 ^ (i - 1)
    /\ xpc = "returned" /\ xresult = "None" => tries = x_max_retries + 1

C28_Witness ==
    /\ xpc = "returned"
    /\ xresult = "None"
    /\ x_max_retries = default_max_retries
    /\ tries = 4
    /\ waits = <<1, 2, 4>>
    /\ retried_after = {"network"}

\* C29: a call is tried again only after a failure of a network kind; any
\* other failure is returned to the caller without another try.
C29_RetryOnlyAfterNetworkError ==
    retried_after \subseteq NetworkKinds

\* ---------------------------------------------------------------------------
\* Post-operation cleanup of the workspace: the finally block of
\* upload_kape_results with WorkspaceCleanupManager.cleanup_workspace and
\* emergency_cleanup, UACCollector._cleanup_workspace_after_operation and
\* ForensicCollector._cleanup_workspace_after_download.  A Boolean drawn in a
\* step is whether its command gave a result.
\* ---------------------------------------------------------------------------

\* The commands of _emergency_process_termination and the Windows
\* cleanup_commands of emergency_cleanup; upload_kape_results always passes
\* the platform "windows".
termination_commands == 3
windows_cleanup_commands == 5

EmergencyCommands == termination_commands + windows_cleanup_commands

CleanupCallers ==
    {"upload_kape_results", "_cleanup_workspace_after_operation",
     "_cleanup_workspace_after_download"}

InitW ==
    /\ wk_caller \in CleanupCallers
    /\ wk_pc = "normal"
    /\ normal_failed = FALSE
    /\ emergency_invoked = FALSE
    /\ emergency_results = <<>>
    /\ emergency_success = "none"
    /\ cleanup_returned = "none"
    /\ confirmed_absent = FALSE

\* cleanup_workspace: the cleanup commands, the verification and the
\* aggressive cleanup that follows a failed verification.
cleanup_workspace(commands_ok, verified, aggressive_ok) ==
    commands_ok /\ (verified \/ aggressive_ok)

\* What the Test-Path / test -d command of _verify_cleanup can give: the
\* answer that the workspace is gone, the answer that it exists, or no
\* result (execute_command returned None, empty output, or raised).
VerifyAnswers == {"not_found", "exists", "no_result"}

\* _verify_cleanup: True for the answer that the workspace is gone, False
\* for the answer that it exists, and True when the command gave no result.
_verify_cleanup(answer) == answer # "exists"

\* The normal cleanup in the finally block of upload_kape_results, and the
\* call of emergency_cleanup on the same session when it returned False.
upload_kape_results_cleanup ==
    /\ wk_pc = "normal"
    /\ wk_caller = "upload_kape_results"
    /\ \E commands_ok \in BOOLEAN, answer, aggressive_answer \in VerifyAnswers :
         LET verified == _verify_cleanup(answer)
             aggressive_ok == _verify_cleanup(aggressive_answer)
             returned == cleanup_workspace(commands_ok, verified, aggressive_ok)
         IN
         /\ cleanup_returned' = IF returned THEN "True" ELSE "False"
         /\ confirmed_absent' =
              /\ commands_ok
              /\ \/ answer = "not_found"
                 \/ ~verified /\ aggressive_answer = "not_found"
         /\ IF returned
            THEN /\ wk_pc' = "done"
                 /\ UNCHANGED <<normal_failed, emergency_invoked>>
            ELSE /\ normal_failed' = TRUE
                 /\ emergency_invoked' = TRUE
                 /\ wk_pc' = "emergency"
    /\ UNCHANGED <<wk_caller, emergency_results, emergency_success>>
    /\ UNCHANGED othersW

\* _cleanup_workspace_after_operation and _cleanup_workspace_after_download:
\* cd out of the workspace, one removal command, and a log line for either
\* outcome.
cleanup_workspace_after_operation ==
    /\ wk_pc = "normal"
    /\ wk_caller # "upload_kape_results"
    /\ \E result \in BOOLEAN : normal_failed' = ~result
    /\ wk_pc' = "done"
    /\ UNCHANGED <<wk_caller, emergency_invoked, emergency_results,
                   emergency_success, cleanup_returned, confirmed_absent>>
    /\ UNCHANGED othersW

\* One command of emergency_cleanup, first those of
\* _emergency_process_termination, then the cleanup_commands; after the last
\* one the function returns True.  The loops go on to the next command
\* whatever the one before gave: execute_command returns None for a failure
\* and an exception is passed over.
emergency_cleanup_command ==
    /\ wk_pc = "emergency"
    /\ IF Len(emergency_results) < EmergencyCommands
       THEN /\ \E result \in BOOLEAN :
                 emergency_results' = Append(emergency_results, result)
            /\ UNCHANGED <<wk_pc, emergency_success>>
       ELSE /\ emergency_success' = "True"
            /\ wk_pc' = "done"
            /\ UNCHANGED emergency_results
    /\ UNCHANGED <<wk_caller, normal_failed, emergency_invoked,
                   cleanup_returned, confirmed_absent>>
    /\ UNCHANGED othersW

NextW ==
    \/ upload_kape_results_cleanup
    \/ cleanup_workspace_after_operation
    \/ emergency_cleanup_command

InitWorkspace ==
    InitW /\ IdleU /\ IdleP /\ IdleC /\ IdleB /\ IdleR /\ IdleK /\ IdleD /\ IdleX /\ IdleM /\ IdleV /\ IdleL /\ IdleT /\ IdleO /\ IdleA /\ IdleG

SpecWorkspace == InitWorkspace /\ [][NextW]_vars

\* C23: when the normal post-operation cleanup of a workspace has failed, the
\* emergency cleanup is invoked for it, and an emergency cleanup that was
\* invoked issues every one of its commands whatever the earlier ones gave.
C23_EmergencyAfterFailedCleanup ==
    wk_pc = "done" =>
        /\ normal_failed => emergency_invoked
        /\ emergency_invoked => Len(emergency_results) = EmergencyCommands

\* C37: cleanup_workspace returns True only if a verifying command answered
\* that the workspace is gone; a verifying command that failed, raised or
\* gave no output does not make the cleanup a success.
C37_SuccessOnlyIfConfirmedAbsent ==
    cleanup_returned = "True" => confirmed_absent

\* ---------------------------------------------------------------------------
\* Monitoring of the collector on the endpoint:
\* ForensicCollector.monitor_kape_execution and
\* UACCollector.monitor_uac_execution.  Time advances only by the sleeps of
\* the loops; what a command shows is drawn in the step that issues it.
\* ---------------------------------------------------------------------------

\* Extensions of the UAC deadline in one run.
MaxExtensions == 2
\* Largest archive size a sample can show.
MaxArchive == 2

kape_timeout == 7200
timeout_extension == 1800
stability_timeout == 300
stability_sleep == 10
required_stable_checks == 2

\* profile_timeouts of the profiles "network" and "offline".
ProfileTimeouts == {1800, 3600}

NeverTimedOut(e, t) == FALSE

\* if elapsed_seconds > timeout
MonitorTimedOut(e, t) == e > t

no_extend(t) == t

\* timeout += 1800
extend(t) == t + timeout_extension

ArchiveWaitEndsAtOnce(e) == FALSE

\* while time.time() - archive_wait_start < archive_timeout
ArchiveWaitGoesOn(e) == e < archive_timeout

InitM ==
    /\ mon \in {"kape", "uac"}
    /\ mpc = "loop"
    /\ m_elapsed = 0
    /\ profile_timeout \in (IF mon = "kape" THEN {kape_timeout} ELSE ProfileTimeouts)
    /\ m_timeout = profile_timeout
    /\ m_last_pulse = 0
    /\ m_result = "running"
    /\ m_exit = "none"
    /\ last_listing = "none"
    /\ extensions = 0
    /\ last_recheck = "none"
    /\ stable_count = 0
    /\ last_size = -1
    /\ stability_elapsed = 0
    /\ archive_wait_elapsed = 0
    /\ exit_code_seen = "none"

\* The monitoring function returns `value` through the named return statement.
MonitorReturns(value, exit) ==
    /\ m_result' = value
    /\ m_exit' = exit
    /\ mpc' = "returned"

\* monitor_kape_execution, one turn of its loop: the timeout check, the pulse
\* when it is due, the process listing and the sleep.
monitor_kape_execution_loop ==
    /\ mon = "kape" /\ mpc = "loop"
    /\ IF MonitorTimedOut(m_elapsed, m_timeout)
       THEN /\ MonitorReturns("False", "timeout")
            /\ UNCHANGED <<m_elapsed, m_last_pulse, last_listing>>
       ELSE \E pulsed \in BOOLEAN, ps \in {"no_result", "has_kape", "no_kape"} :
              /\ m_last_pulse' =
                   IF m_elapsed - m_last_pulse >= pulse_interval /\ pulsed
                   THEN m_elapsed ELSE m_last_pulse
              /\ CASE ps = "no_result" ->
                        /\ MonitorReturns("False", "ps_failed")
                        /\ UNCHANGED <<m_elapsed, last_listing>>
                   [] ps = "no_kape" ->
                        /\ last_listing' = "no_kape"
                        /\ MonitorReturns("True", "completed")
                        /\ UNCHANGED m_elapsed
                   [] ps = "has_kape" ->
                        /\ last_listing' = "has_kape"
                        /\ m_elapsed' = m_elapsed + kape_interval
                        /\ UNCHANGED <<mpc, m_result, m_exit>>
    /\ UNCHANGED <<mon, m_timeout, profile_timeout, extensions, last_recheck,
                   stable_count, last_size, stability_elapsed,
                   archive_wait_elapsed, exit_code_seen>>
    /\ UNCHANGED othersM

\* monitor_uac_execution, one turn of its outer loop: the pulse when it is
\* due, the timeout check with the re-check of the PID, the listing of the
\* evidence directory, the exit-code file and the sleep.  `recheck` is "live"
\* when the PID file holds a number and ps counts one process for it.
monitor_uac_execution_loop ==
    /\ mon = "uac" /\ mpc = "loop"
    /\ m_last_pulse' = IF m_elapsed - m_last_pulse >= pulse_interval
                       THEN m_elapsed ELSE m_last_pulse
    /\ IF MonitorTimedOut(m_elapsed, m_timeout)
       THEN /\ \E recheck \in (IF extensions < MaxExtensions
                               THEN {"live", "not_live"} ELSE {"not_live"}) :
                 /\ last_recheck' = recheck
                 /\ IF recheck = "live"
                    THEN /\ m_timeout' = extend(m_timeout)
                         /\ extensions' = extensions + 1
                         /\ UNCHANGED <<mpc, m_result, m_exit>>
                    ELSE /\ MonitorReturns("None", "timeout")
                         /\ UNCHANGED <<m_timeout, extensions>>
            /\ UNCHANGED <<m_elapsed, exit_code_seen>>
       ELSE /\ \E seen \in {"no_listing", "archive", "exit0", "exit_error",
                            "running"} :
                 CASE seen = "no_listing" ->
                        /\ MonitorReturns("None", "ls_failed")
                        /\ UNCHANGED <<m_elapsed, exit_code_seen>>
                   [] seen = "archive" ->
                        /\ mpc' = "stability"
                        /\ UNCHANGED <<m_elapsed, m_result, m_exit,
                                       exit_code_seen>>
                   [] seen = "exit0" ->
                        /\ exit_code_seen' = "zero"
                        /\ mpc' = "archive_wait"
                        /\ UNCHANGED <<m_elapsed, m_result, m_exit>>
                   [] seen = "exit_error" ->
                        /\ exit_code_seen' = "nonzero"
                        /\ MonitorReturns("None", "exit_error")
                        /\ UNCHANGED m_elapsed
                   [] seen = "running" ->
                        /\ m_elapsed' = m_elapsed + uac_interval
                        /\ UNCHANGED <<mpc, m_result, m_exit, exit_code_seen>>
            /\ UNCHANGED <<m_timeout, extensions, last_recheck>>
    /\ UNCHANGED <<mon, profile_timeout, last_listing, stable_count, last_size,
                   stability_elapsed, archive_wait_elapsed>>
    /\ UNCHANGED othersM

\* The stability loop that follows a listing with the archive in it, one
\* turn or its end.  `size` is the sample, -1 when the size command gave no
\* number.
monitor_uac_execution_stability ==
    /\ mon = "uac" /\ mpc = "stability"
    /\ IF stability_elapsed < stability_timeout
       THEN \E size \in -1..MaxArchive :
              IF size # -1 /\ last_size = size
              THEN /\ stable_count' = stable_count + 1
                   /\ IF stable_count + 1 >= required_stable_checks
                      THEN /\ MonitorReturns("base_name", "stable")
                           /\ UNCHANGED <<last_size, stability_elapsed>>
                      ELSE /\ last_size' = size
                           /\ stability_elapsed' = stability_elapsed + stability_sleep
                           /\ UNCHANGED <<mpc, m_result, m_exit>>
              ELSE /\ stable_count' = 0
                   /\ last_size' = size
                   /\ stability_elapsed' = stability_elapsed + stability_sleep
                   /\ UNCHANGED <<mpc, m_result, m_exit>>
       ELSE /\ MonitorReturns("base_name", "stability_timeout")
            /\ UNCHANGED <<stable_count, last_size, stability_elapsed>>
    /\ UNCHANGED <<mon, m_elapsed, m_timeout, profile_timeout, m_last_pulse,
                   last_listing, extensions, last_recheck,
                   archive_wait_elapsed, exit_code_seen>>
    /\ UNCHANGED othersM

\* The wait for the archive that follows an exit code of 0, one turn or its
\* end.
monitor_uac_execution_archive_wait ==
    /\ mon = "uac" /\ mpc = "archive_wait"
    /\ IF ArchiveWaitGoesOn(archive_wait_elapsed)
       THEN \E seen \in {"no_listing", "no_archive", "archive"} :
              IF seen = "archive"
              THEN /\ MonitorReturns("base_name", "archive_created")
                   /\ UNCHANGED archive_wait_elapsed
              ELSE /\ archive_wait_elapsed' = archive_wait_elapsed + archive_sleep
                   /\ UNCHANGED <<mpc, m_result, m_exit>>
       ELSE /\ MonitorReturns("None", "archive_timeout")
            /\ UNCHANGED archive_wait_elapsed
    /\ UNCHANGED <<mon, m_elapsed, m_timeout, profile_timeout, m_last_pulse,
                   last_listing, extensions, last_recheck, stable_count,
                   last_size, stability_elapsed, exit_code_seen>>
    /\ UNCHANGED othersM

NextM ==
    \/ monitor_kape_execution_loop
    \/ monitor_uac_execution_loop
    \/ monitor_uac_execution_stability
    \/ monitor_uac_execution_archive_wait

InitMonitor ==
    InitM /\ IdleU /\ IdleP /\ IdleC /\ IdleB /\ IdleR /\ IdleK /\ IdleD /\ IdleX /\ IdleW /\ IdleV /\ IdleL /\ IdleT /\ IdleO /\ IdleA /\ IdleG

SpecMonitor == InitMonitor /\ [][NextM]_vars

\* C24: KAPE monitoring returns True only when the process listing it has
\* just taken does not contain kape.exe, and it returns False at the first
\* turn of its loop after kape_timeout seconds have passed without that.
C24_DoneOnlyWithoutKapeFailAfterTimeout ==
    mon = "kape" =>
        /\ m_result = "True" => last_listing = "no_kape" /\ m_exit = "completed"
        /\ mpc = "loop" => m_elapsed <= kape_timeout + kape_interval
        /\ m_exit = "timeout" => m_result = "False" /\ m_elapsed > kape_timeout

C24_Witness ==
    /\ mon = "kape"
    /\ m_result = "True"
    /\ last_listing = "no_kape"
    /\ m_elapsed = kape_timeout

\* C25: UAC monitoring returns the base name of the archive only after two
\* consecutive size samples, taken stability_sleep seconds apart, showed the
\* same size.
C25_EmitOnlyWhenStable ==
    (mon = "uac" /\ m_result = "base_name") =>
        /\ stable_count >= 1
        /\ stability_sleep >= 10

\* C26 as stated: once the exit-code file was seen before an archive, failure
\* is reported only when the archive has not appeared within archive_timeout.
C26_FailureOnlyAfterArchiveWait ==
    (mon = "uac" /\ exit_code_seen # "none" /\ m_result = "None") =>
        archive_wait_elapsed >= archive_timeout

\* C26 amended: once the exit-code file was seen with exit code 0 before an
\* archive, monitoring waits at most archive_timeout seconds for the archive,
\* returns its base name when it appears in that time and None when it has
\* not; with any other exit code it returns None without waiting.
C26_ArchiveWaitAfterExitZero ==
    mon = "uac" =>
        /\ archive_wait_elapsed <= archive_timeout
        /\ mpc = "archive_wait" => exit_code_seen = "zero"
        /\ (exit_code_seen = "zero" /\ m_result = "None") =>
             /\ m_exit = "archive_timeout"
             /\ archive_wait_elapsed = archive_timeout
        /\ (exit_code_seen = "zero" /\ m_result = "base_name") =>
             /\ m_exit = "archive_created"
             /\ archive_wait_elapsed < archive_timeout
        /\ exit_code_seen = "nonzero" =>
             /\ m_result = "None" /\ m_exit = "exit_error"
             /\ archive_wait_elapsed = 0

C26_Witness ==
    /\ mon = "uac"
    /\ exit_code_seen = "zero"
    /\ m_result = "None"
    /\ archive_wait_elapsed = archive_timeout

ExpectedSizes == {0, 1, 51200, 102400, 204800}

\* Differences between the object's size and the expected one, around the
\* bounds of 1 KiB and of 1 % of the expected sizes.
SizeDeltas == {-2049, -2048, -1025, -1024, -1, 0, 1, 1024, 1025, 2048, 2049}

InitV ==
    /\ vpc = "verify"
    /\ v_expected_size \in ExpectedSizes
    /\ object_size \in {-1} \cup
         {v_expected_size + d : d \in {x \in SizeDeltas : v_expected_size + x > 0}}
    /\ v_head_code = 0
    /\ verification = "pending"

\* _verify_s3_upload_success: the HEAD through verify_s3_upload decides; the
\* get_s3_object_info that follows a failure only feeds the log.
verify_s3_upload_success ==
    /\ vpc = "verify"
    /\ \E code \in (IF object_size >= 0 THEN {200, 500} ELSE {404, 500}) :
         /\ v_head_code' = code
         /\ verification' =
              IF verify_s3_upload(code, object_size, v_expected_size)
              THEN "True" ELSE "False"
    /\ vpc' = "returned"
    /\ UNCHANGED <<v_expected_size, object_size>>
    /\ UNCHANGED othersV

NextV ==
    \/ verify_s3_upload_success

InitVerify ==
    InitV /\ IdleU /\ IdleP /\ IdleC /\ IdleB /\ IdleR /\ IdleK /\ IdleD /\ IdleX /\ IdleW /\ IdleM /\ IdleL /\ IdleT /\ IdleO /\ IdleA /\ IdleG

SpecVerify == InitVerify /\ [][NextV]_vars

\* The object's size differs from the expected one by no more than
\* max(1 KiB, 1 % of the expected size).
WithinTolerance ==
    LET d == IF object_size >= v_expected_size THEN object_size - v_expected_size
             ELSE v_expected_size - object_size
    IN  d <= 1024 \/ 100 * d <= v_expected_size

\* C30 as stated: with an expected size supplied, the verification accepts
\* the object exactly when the HEAD found it and its size is within
\* max(1 KiB, 1 %) of the expected size.
C30_AcceptsWithinTolerance ==
    (vpc = "returned" /\ v_expected_size # 0) =>
        (verification = "True" <=> (v_head_code = 200 /\ WithinTolerance))

\* C30 amended: with an expected size supplied, the verification accepts the
\* object exactly when the HEAD found it and its size equals the expected
\* size.
C30_AcceptsEqualSizeOnly ==
    (vpc = "returned" /\ v_expected_size # 0) =>
        (verification = "True" <=>
            (v_head_code = 200 /\ object_size = v_expected_size))

C30_Witness ==
    /\ vpc = "returned"
    /\ v_expected_size = 204800
    /\ object_size = 204801
    /\ v_head_code = 200
    /\ verification = "False"

\* ---------------------------------------------------------------------------
\* The deadline of UACCollector.monitor_uac_execution over an unbounded run.
\* The loop reads elapsed_seconds and timeout only in the test
\* elapsed_seconds > timeout, so the state kept here is their difference;
\* the stability loop and the archive wait, each with a deadline of its own,
\* count as a return.
\* ---------------------------------------------------------------------------
InitL ==
    /\ lpc = "loop"
    /\ time_left \in ProfileTimeouts

\* One turn of the outer loop: past the deadline the PID is checked again and
\* a live process moves the deadline on by timeout_extension, as often as it
\* is found live; before the deadline the turn returns or sleeps.
monitor_uac_execution_deadline ==
    /\ lpc = "loop"
    /\ IF time_left < 0
       THEN \E recheck \in {"live", "not_live"} :
              IF recheck = "live"
              THEN /\ time_left' = time_left + timeout_extension
                   /\ UNCHANGED lpc
              ELSE /\ lpc' = "returned"
                   /\ UNCHANGED time_left
       ELSE \E seen \in {"no_listing", "archive", "exit0", "exit_error",
                         "running"} :
              IF seen = "running"
              THEN /\ time_left' = time_left - uac_interval
                   /\ UNCHANGED lpc
              ELSE /\ lpc' = "returned"
                   /\ UNCHANGED time_left
    /\ UNCHANGED othersL

NextL ==
    \/ monitor_uac_execution_deadline

InitDeadline ==
    InitL /\ IdleU /\ IdleP /\ IdleC /\ IdleB /\ IdleR /\ IdleK /\ IdleD /\ IdleX /\ IdleW /\ IdleM /\ IdleV /\ IdleT /\ IdleO /\ IdleA /\ IdleG

\* The loop is a running thread: a turn that can be taken is taken.
SpecDeadline == InitDeadline /\ [][NextL]_vars /\ WF_vars(NextL)

\* C39: monitor_uac_execution returns in the end, also when the collector
\* process stays live and no archive appears.
C39_AlwaysReturns == <>(lpc = "returned")

\* ---------------------------------------------------------------------------
\* The KAPE target of a batch: _process_kape_batch_for_cid for the hosts of
\* one customer-id, _upload_kape_cloud_files_once with prepare_kape_package,
\* and the workers, which deploy the kape.zip of the cloud; a second batch in
\* the same process finds the memo of the first.
\* ---------------------------------------------------------------------------
\* Batches of one customer-id run in one process.
MaxBatches == 2

BatchHosts == 1..2
KapeTargets == {"!BasicCollection", "KapeTriage"}

InitT ==
    /\ tpc = "start"
    /\ kape_targets \in [BatchHosts -> KapeTargets]
    /\ zip_target = "none"
    /\ files_uploaded = FALSE
    /\ collected_with = [h \in BatchHosts |-> "none"]
    /\ batches_run = 0

\* prepare_kape_package: the _kape.cli of the package names the target it was
\* called with.
prepare_kape_package(target) == target

\* _process_kape_batch_for_cid up to the workers: first_target is the target
\* of hosts[0]; _upload_kape_cloud_files_once returns at once when the memo
\* holds kape.zip, and otherwise packs and uploads kape.zip, then the deploy
\* script, and sets the memo after both.
process_kape_batch_for_cid_upload ==
    /\ tpc = "start"
    /\ LET first_target == kape_targets[1] IN
       IF files_uploaded
       THEN /\ tpc' = "workers"
            /\ UNCHANGED <<zip_target, files_uploaded, collected_with>>
       ELSE \E zip_ok, script_ok \in BOOLEAN :
              /\ zip_target' = IF zip_ok THEN prepare_kape_package(first_target)
                               ELSE "none"
              /\ files_uploaded' = (zip_ok /\ script_ok)
              /\ IF zip_ok /\ script_ok
                 THEN /\ tpc' = "workers"
                      /\ UNCHANGED collected_with
                 ELSE /\ tpc' = "returned"
                      /\ collected_with' = [h \in BatchHosts |-> "failed"]
    /\ UNCHANGED <<kape_targets, batches_run>>
    /\ UNCHANGED othersT

\* _run_kape_collection_no_upload for host h: deploy_kape puts the kape.zip of
\* the cloud on the host and execute_kape runs its _kape.cli; the worker's own
\* target is only logged.
run_kape_collection_no_upload(h) ==
    /\ tpc = "workers"
    /\ collected_with[h] = "none"
    /\ \E ok \in BOOLEAN :
         collected_with' =
             [collected_with EXCEPT ![h] = IF ok THEN zip_target ELSE "failed"]
    /\ UNCHANGED <<tpc, kape_targets, zip_target, files_uploaded, batches_run>>
    /\ UNCHANGED othersT

\* _process_kape_batch_for_cid returns once every worker has finished.
process_kape_batch_for_cid_return ==
    /\ tpc = "workers"
    /\ \A h \in BatchHosts : collected_with[h] # "none"
    /\ tpc' = "returned"
    /\ UNCHANGED <<kape_targets, zip_target, files_uploaded, collected_with,
                   batches_run>>
    /\ UNCHANGED othersT

\* run_kape_batch is called again on the same orchestrator, with targets of
\* its own.
run_kape_batch_again ==
    /\ tpc = "returned"
    /\ batches_run + 1 < MaxBatches
    /\ batches_run' = batches_run + 1
    /\ kape_targets' \in [BatchHosts -> KapeTargets]
    /\ collected_with' = [h \in BatchHosts |-> "none"]
    /\ tpc' = "start"
    /\ UNCHANGED <<zip_target, files_uploaded>>
    /\ UNCHANGED othersT

NextT ==
    \/ process_kape_batch_for_cid_upload
    \/ \E h \in BatchHosts : run_kape_collection_no_upload(h)
    \/ process_kape_batch_for_cid_return
    \/ run_kape_batch_again

InitTarget ==
    InitT /\ IdleU /\ IdleP /\ IdleC /\ IdleB /\ IdleR /\ IdleK /\ IdleD /\ IdleX /\ IdleW /\ IdleM /\ IdleV /\ IdleL /\ IdleO /\ IdleA /\ IdleG

SpecTarget == InitTarget /\ [][NextT]_vars

MaxInitCalls == 4

MemberCids == 1..3

InitO ==
    /\ rtr_client = 0
    /\ session_manager = 0
    /\ _initialized_cids = {}
    /\ host_cid = 0
    /\ init_outcome = "none"
    /\ init_calls = 0

\* initialize_for_host(hostname).  `found` is the customer-id of the host the
\* hostname resolves to, 0 when there is none; `client_ok` is whether
\* RTRAPIClient.initialize went through.
initialize_for_host ==
    /\ init_calls < MaxInitCalls
    /\ init_calls' = init_calls + 1
    /\ \E found \in {0} \cup MemberCids, client_ok \in BOOLEAN :
         IF found = 0
         THEN /\ init_outcome' = "ValueError"
              /\ UNCHANGED <<rtr_client, session_manager, _initialized_cids,
                             host_cid>>
         ELSE /\ host_cid' = found
              /\ IF found \notin _initialized_cids
                 THEN /\ rtr_client' = found
                      /\ IF client_ok
                         THEN /\ session_manager' = found
                              /\ _initialized_cids' = _initialized_cids \cup {found}
                              /\ init_outcome' = "host_info"
                         ELSE /\ init_outcome' = "RuntimeError"
                              /\ UNCHANGED <<session_manager, _initialized_cids>>
                 ELSE /\ init_outcome' = "host_info"
                      /\ UNCHANGED <<rtr_client, session_manager,
                                     _initialized_cids>>
    /\ UNCHANGED othersO

NextO ==
    \/ initialize_for_host

InitOrchestrator ==
    InitO /\ IdleU /\ IdleP /\ IdleC /\ IdleB /\ IdleR /\ IdleK /\ IdleD /\ IdleX /\ IdleW /\ IdleM /\ IdleV /\ IdleL /\ IdleT /\ IdleA /\ IdleG

SpecOrchestrator == InitOrchestrator /\ [][NextO]_vars

\* C36: after initialize_for_host has returned a host, the managers and
\* collectors of the orchestrator hold the RTR client of that host's
\* customer-id.
C36_ClientOfHostsCid ==
    init_outcome = "host_info" => session_manager = host_cid

\* ---------------------------------------------------------------------------
\* SessionManager._active_sessions under the threads of a batch: start_session
\* and end_session of one SessionManager called concurrently.  A step is one
\* access of the dict; the interpreter runs each of them atomically.
\* ---------------------------------------------------------------------------
\* Sessions the control plane hands out in one run.
MaxStarted == 3

Threads == 1..2
TableSessionIds == 1..MaxStarted

\* The id of the next init_session: ids are never handed out twice.
NextSessionId ==
    Cardinality(sessions_started) + Cardinality({th \in Threads : apc[th] = "store"}) + 1

InitA ==
    /\ _active_sessions = {}
    /\ apc = [th \in Threads |-> "idle"]
    /\ a_session = [th \in Threads |-> 0]
    /\ a_result = [th \in Threads |-> "none"]
    /\ sessions_started = {}
    /\ sessions_ended = {}

\* A table that drops the entry it is given.
store_nothing(table, session_id) == table

\* self._active_sessions[session_id] = rtr_session
store_session(table, session_id) == table \cup {session_id}

\* del self._active_sessions[session.session_id]
del_session(table, session_id) == table \ {session_id}

\* start_session up to the response of init_session: any answer but a 201
\* with a session id returns None.
start_session_init(th) ==
    /\ apc[th] = "idle"
    /\ NextSessionId \in TableSessionIds
    /\ \E created \in BOOLEAN :
         IF created
         THEN /\ apc' = [apc EXCEPT ![th] = "store"]
              /\ a_session' = [a_session EXCEPT ![th] = NextSessionId]
              /\ UNCHANGED a_result
         ELSE /\ a_result' = [a_result EXCEPT ![th] = "None"]
              /\ UNCHANGED <<apc, a_session>>
    /\ UNCHANGED <<_active_sessions, sessions_started, sessions_ended>>
    /\ UNCHANGED othersA

\* start_session, the store into the table and the return of the session.
start_session_store(th) ==
    /\ apc[th] = "store"
    /\ _active_sessions' = store_session(_active_sessions, a_session[th])
    /\ sessions_started' = sessions_started \cup {a_session[th]}
    /\ apc' = [apc EXCEPT ![th] = "idle"]
    /\ a_session' = [a_session EXCEPT ![th] = 0]
    /\ a_result' = [a_result EXCEPT ![th] = "session"]
    /\ UNCHANGED sessions_ended
    /\ UNCHANGED othersA

\* end_session(session) up to the response of delete_session: anything but a
\* 204 returns False and leaves the table alone.  Any thread may end any
\* session that was started, also one that another thread is ending.
end_session_delete(th) ==
    /\ apc[th] = "idle"
    /\ \E s \in sessions_started, deleted \in BOOLEAN :
         IF deleted
         THEN /\ apc' = [apc EXCEPT ![th] = "check"]
              /\ a_session' = [a_session EXCEPT ![th] = s]
              /\ UNCHANGED a_result
         ELSE /\ a_result' = [a_result EXCEPT ![th] = "False"]
              /\ UNCHANGED <<apc, a_session>>
    /\ UNCHANGED <<_active_sessions, sessions_started, sessions_ended>>
    /\ UNCHANGED othersA

\* end_session, the test "session_id in self._active_sessions"; without the
\* entry the function returns True at once.
end_session_check(th) ==
    /\ apc[th] = "check"
    /\ IF a_session[th] \in _active_sessions
       THEN /\ apc' = [apc EXCEPT ![th] = "del"]
            /\ UNCHANGED <<a_session, a_result, sessions_ended>>
       ELSE /\ apc' = [apc EXCEPT ![th] = "idle"]
            /\ a_session' = [a_session EXCEPT ![th] = 0]
            /\ a_result' = [a_result EXCEPT ![th] = "True"]
            /\ sessions_ended' = sessions_ended \cup {a_session[th]}
    /\ UNCHANGED <<_active_sessions, sessions_started>>
    /\ UNCHANGED othersA

\* end_session, the del and the return.  When another thread has removed the
\* entry since the test, del raises KeyError, which the function's
\* "except Exception" turns into False.
end_session_del(th) ==
    /\ apc[th] = "del"
    /\ IF a_session[th] \in _active_sessions
       THEN /\ _active_sessions' = del_session(_active_sessions, a_session[th])
            /\ sessions_ended' = sessions_ended \cup {a_session[th]}
            /\ a_result' = [a_result EXCEPT ![th] = "True"]
       ELSE /\ a_result' = [a_result EXCEPT ![th] = "KeyError"]
            /\ UNCHANGED <<_active_sessions, sessions_ended>>
    /\ apc' = [apc EXCEPT ![th] = "idle"]
    /\ a_session' = [a_session EXCEPT ![th] = 0]
    /\ UNCHANGED sessions_started
    /\ UNCHANGED othersA

NextA ==
    \/ \E th \in Threads : start_session_init(th)
    \/ \E th \in Threads : start_session_store(th)
    \/ \E th \in Threads : end_session_delete(th)
    \/ \E th \in Threads : end_session_check(th)
    \/ \E th \in Threads : end_session_del(th)

InitTable ==
    InitA /\ IdleU /\ IdleP /\ IdleC /\ IdleB /\ IdleR /\ IdleK /\ IdleD /\ IdleX /\ IdleW /\ IdleM /\ IdleV /\ IdleL /\ IdleT /\ IdleO /\ IdleG

SpecTable == InitTable /\ [][NextA]_vars

\* C40: the active-session table holds exactly the sessions that
\* start_session returned and that no end_session call has ended with
\* success, whatever the interleaving of the threads.
C40_TableIsStartedNotEnded ==
    _active_sessions = sessions_started \ sessions_ended

\* Two threads ended one session together, one of them lost the race on the
\* del, and another session is still held.
C40_Witness ==
    /\ \E th \in Threads : a_result[th] = "KeyError"
    /\ sessions_ended # {}
    /\ _active_sessions # {}

\* ---------------------------------------------------------------------------
\* The upload-time budget: actual_wait_time of upload_kape_results and
\* estimated_upload_time of upload_uac_results.  Sizes and rates are counted
\* in blocks of 64 bytes, which divides every constant of the code, so that
\* the products stay within the integers of the checker; int(x * 1.5) of the
\* code is the floor of the exact quotient.
\* ---------------------------------------------------------------------------
\* File sizes run from 0 to MaxSizeSteps steps of 50,000,000 bytes.
MaxSizeSteps == 120
\* 50,000,000 bytes in blocks.
size_step == 781250

\* collectors.py:1998, 1 * 1024 * 1024 bytes per second
kape_upload_rate == 16384
\* collectors.py:1999
min_wait_time == 300
\* collectors.py:2006
max_wait_time == 1800
\* configuration.py:130, "upload_rate": 5000000 bytes per second
config_upload_rate == 78125
\* uac_collector.py:881, the rate "or 2000000" that the comment calls the
\* baseline; get_file_setting gives 5000000, so it is never used
baseline_upload_rate == 31250
\* uac_collector.py:885, 1000000000 bytes
normal_size_limit == 15625000
\* uac_collector.py:888, 5000000000 bytes
longer_size_limit == 78125000
\* uac_collector.py:887, 890, 893
normal_buffer_time == 300
longer_buffer_time == 600
very_long_buffer_time == 1200

BudgetFileSizes == {n * size_step : n \in 0..MaxSizeSteps}

Max(a, b) == IF a >= b THEN a ELSE b

\* safety_multiplier / safety_margin, in halves: 1.5, 2.0, 2.5.
kape_safety_halves == 3

safety_margin_halves(size) ==
    IF size < normal_size_limit THEN 3
    ELSE IF size < longer_size_limit THEN 4
    ELSE 5

buffer_time(size) ==
    IF size < normal_size_limit THEN normal_buffer_time
    ELSE IF size < longer_size_limit THEN longer_buffer_time
    ELSE very_long_buffer_time

\* upload_kape_results: min(max(min_wait_time, calculated_wait), max_wait_time).
actual_wait_time(size) ==
    LET calculated_wait == (size * kape_safety_halves) \div (kape_upload_rate * 2)
    IN Min(Max(min_wait_time, calculated_wait), max_wait_time)

\* upload_uac_results: int(base_upload_time * safety_margin) + buffer_time,
\* with no upper limit.
estimated_upload_time(size) ==
    (size * safety_margin_halves(size)) \div (config_upload_rate * 2)
        + buffer_time(size)

InitG ==
    /\ gpc = "size"
    /\ budget_platform \in {"windows", "unix"}
    /\ budget_file_size \in BudgetFileSizes
    /\ upload_budget = 0

\* The budget is computed once the size of the archive is known.
compute_upload_budget ==
    /\ gpc = "size"
    /\ upload_budget' = IF budget_platform = "windows"
                        THEN actual_wait_time(budget_file_size)
                        ELSE estimated_upload_time(budget_file_size)
    /\ gpc' = "budget"
    /\ UNCHANGED <<budget_platform, budget_file_size>>
    /\ UNCHANGED othersG

NextG ==
    \/ compute_upload_budget

InitBudget ==
    InitG /\ IdleU /\ IdleP /\ IdleC /\ IdleB /\ IdleR /\ IdleK /\ IdleD /\ IdleX /\ IdleW /\ IdleM /\ IdleV /\ IdleL /\ IdleT /\ IdleO /\ IdleA

SpecBudget == InitBudget /\ [][NextG]_vars

\* The least and the greatest budget that the size gives at the baseline
\* rate with a safety factor of 1.5 to 2.5.
BaselineLow(size) == (size * 3) \div (baseline_upload_rate * 2)
BaselineHigh(size) == (size * 5) \div (baseline_upload_rate * 2) + 1

\* C31: the budget is the size over 2 MB/s times a safety factor of 1.5 to
\* 2.5, on Windows clamped to 5 to 30 minutes, on Unix at most that product
\* (a platform maximum can only lower it).
C31_BudgetAtBaselineRate ==
    gpc = "budget" =>
        IF budget_platform = "windows"
        THEN /\ upload_budget >=
                  Min(Max(min_wait_time, BaselineLow(budget_file_size)), max_wait_time)
             /\ upload_budget <=
                  Min(Max(min_wait_time, BaselineHigh(budget_file_size)), max_wait_time)
        ELSE upload_budget <= BaselineHigh(budget_file_size)

====
